---- MODULE Spec2Model ----
(***************************************************************************)
(* A model of govee-discovery: the registry store (store.py), the          *)
(* discovery listener (discovery.py), batch interrogation (interrogate.py) *)
(* and the control exchange (control.py).                                  *)
(*                                                                         *)
(* Python values are modelled as tagged records:                           *)
(*   None            [t |-> "none"]                                        *)
(*   a str           [t |-> "str", v |-> s]                                *)
(*   json.dumps(x)   [t |-> "str", json |-> x]   (the text serialising x)  *)
(*   an int          [t |-> "int", n |-> i]                                *)
(*   a JSON number   [t |-> "num", v |-> s]                                *)
(*   a JSON array    [t |-> "arr"]                                         *)
(*   a dict          [t |-> "obj", kv |-> f]  with f a function on keys    *)
(* SQL NULL is None.                                                       *)
(***************************************************************************)
EXTENDS Integers, Sequences, FiniteSets, TLC

VARIABLES
    store,        \* RegistryStore: the four tables written by the program
    resolve_mac,  \* DiscoveryProtocol.resolve_mac
    received,     \* history: datagrams delivered to the listener, in order
    upserts,      \* history: arguments of the upsert_device_from_scan calls
    ia,           \* interrogate_all: position, target list, loop index, locals
    sock,         \* the control socket of interrogate_all: timeout, open/closed
    mono,         \* time.monotonic(), counted from the start of the current
                  \* interrogate_device_dev_status call
    requests,     \* history: devStatus requests put on the wire, in order
    answers,      \* history: per Interrogation row, the datagram it stores
    heard,        \* history: kinds of the datagrams recvfrom has returned in
                  \* the current interrogate_device_dev_status call
    sc,           \* send_control_command: position, arguments, socket, what
                  \* the send and the receive yielded, the value returned
    sr,           \* run_scan: position of the listener set-up and of
                  \* send_scan_requests, its repeat argument, what was sent
    cc,           \* cmd_control: position, arguments, the payload built, the
                  \* sockets made and datagrams sent, the exit status
    fc,           \* the last direct call of a function of control.py: its
                  \* name, its arguments, what it returned or raised
    rp,           \* run_color_probe: position, arguments, the candidates
                  \* of its generator and those left, first, the results,
                  \* history: the sleeps and calls made
    db            \* the connections to the database file: the statement each
                  \* is at, the write lock, the transactions committed

\* ------------------------------------------------------------------ bounds

\* Datagrams the listener handles in one run.
MaxEvents == 2
\* now_ms() ranges over 1..MaxTime (the wall clock is not monotonic).
MaxTime == 2

\* Direct calls of upsert_device_from_scan in one run of the store interface.
MaxCalls == 2
\* SpecControl makes at most MaxCommands send_control_command calls.
MaxCommands == 2
\* SpecEnrich makes at most MaxRuns single-target interrogate_all runs.
MaxRuns == 2
\* SpecRegistry handles at most MaxOps datagrams and runs together.
MaxOps == 4
\* The repeat argument of send_scan_requests ranges over -1..MaxRepeat.
MaxRepeat == 2
\* SpecConnections starts at most MaxTxns store calls over its connections.
MaxTxns == 3
\* SpecProbe lets the network differ at one of the first MaxScripted attempts.
MaxScripted == 3

\* The receive timeout of the control socket, in clock ticks of a second
\* (timeout_s, 2.0 unless the caller says otherwise).
TimeoutTicks == 2
Times == 1..MaxTime

\* ----------------------------------------------------------- Python values

None == [t |-> "none"]
StrV(s) == [t |-> "str", v |-> s]
IntV(i) == [t |-> "int", n |-> i]
Num(s) == [t |-> "num", v |-> s]
NumV == Num("42")
ArrV == [t |-> "arr"]
EmptyMap == [k \in {} |-> None]
Obj(kv) == [t |-> "obj", kv |-> kv]

\* The wire shape {"msg": {"cmd": cmd, "data": data}}.
Envelope(cmd, data) == Obj([msg |-> Obj([cmd |-> cmd, data |-> data])])

IsStr(x) == x.t = "str"
IsDict(x) == x.t = "obj"

\* dict.get(key): the value, or None when the key is absent.
Get(d, k) == IF k \in DOMAIN d.kv THEN d.kv[k] ELSE None

\* Python truthiness of the values that occur.
Truthy(x) ==
    CASE x.t = "none" -> FALSE
      [] x.t = "str" -> IF "v" \in DOMAIN x THEN x.v # "" ELSE TRUE
      [] x.t = "obj" -> DOMAIN x.kv # {}
      [] OTHER -> TRUE

\* json.dumps(obj, ensure_ascii=False, separators=(",", ":")): the text of obj.
json_dumps(x) == [t |-> "str", json |-> x]

\* ------------------------------------------------------------ wire payloads

\* The bytes of a datagram: not valid UTF-8, UTF-8 text that is not JSON,
\* or the UTF-8 text of a JSON value.
BadUtf8(b) == [enc |-> "badutf8", raw |-> b]
NotJson(s) == [enc |-> "utf8", text |-> s]
JsonBytes(x) == [enc |-> "json", val |-> x]

\* bytes.decode("utf-8", errors="replace"): every invalid sequence becomes
\* U+FFFD, so distinct invalid datagrams may decode to the same text.
decode_replace(data) ==
    CASE data.enc = "badutf8" -> StrV("\\ufffd")
      [] data.enc = "utf8" -> StrV(data.text)
      [] OTHER -> [t |-> "str", wire |-> data.val]

\* safe_json_loads: the parsed JSON value (of any type), None on any failure.
safe_json_loads(data) ==
    IF data.enc = "json" THEN data.val ELSE None

\* ------------------------------------------------------------ RegistryStore

\* The state after RegistryStore.__init__ on a fresh database file.
EmptyStore ==
    [devices |-> EmptyMap, scan_events |-> <<>>,
     interrogations |-> <<>>, device_kv |-> EmptyMap]

COALESCE(a, b) == IF a # None THEN a ELSE b

insert_scan_event(st, received_at_ms, src_ip, src_port, payload_raw) ==
    [st EXCEPT !.scan_events =
        Append(@, [received_at_ms |-> received_at_ms, src_ip |-> src_ip,
                   src_port |-> src_port, payload_raw |-> payload_raw])]

\* Whole-row replacement that keeps first_seen_ms: what the upsert would be
\* without the COALESCE clauses.
upsert_replacing_row(st, device_id, ip, sku, ble_hw, ble_sw, wifi_hw, wifi_sw, mac, scan_payload_raw, seen_ms) ==
    LET d == device_id.v
        exists == d \in DOMAIN st.devices
        row ==
            [ip |-> ip, sku |-> sku,
             ble_version_hard |-> ble_hw, ble_version_soft |-> ble_sw,
             wifi_version_hard |-> wifi_hw, wifi_version_soft |-> wifi_sw,
             mac |-> mac,
             last_scan_payload |-> scan_payload_raw,
             last_status_payload |->
                 IF exists THEN st.devices[d].last_status_payload ELSE None,
             first_seen_ms |->
                 IF exists THEN st.devices[d].first_seen_ms ELSE seen_ms,
             last_seen_ms |-> seen_ms,
             extra_json |-> json_dumps(Obj(EmptyMap))]
    IN  [st EXCEPT !.devices = (d :> row) @@ @]

\* upsert_device_from_scan with a monotonicity check: last_seen never goes back.
upsert_advancing_last_seen(st, device_id, ip, sku, ble_hw, ble_sw, wifi_hw, wifi_sw, mac, scan_payload_raw, seen_ms) ==
    LET d == device_id.v
        exists == d \in DOMAIN st.devices
        inserted ==
            [ip |-> ip, sku |-> sku,
             ble_version_hard |-> ble_hw, ble_version_soft |-> ble_sw,
             wifi_version_hard |-> wifi_hw, wifi_version_soft |-> wifi_sw,
             mac |-> mac,
             last_scan_payload |-> scan_payload_raw,
             last_status_payload |-> None,
             first_seen_ms |-> seen_ms, last_seen_ms |-> seen_ms,
             extra_json |-> json_dumps(Obj(EmptyMap))]
        old == st.devices[d]
        updated ==
            [old EXCEPT
                !.ip = COALESCE(ip, old.ip),
                !.sku = COALESCE(sku, old.sku),
                !.ble_version_hard = COALESCE(ble_hw, old.ble_version_hard),
                !.ble_version_soft = COALESCE(ble_sw, old.ble_version_soft),
                !.wifi_version_hard = COALESCE(wifi_hw, old.wifi_version_hard),
                !.wifi_version_soft = COALESCE(wifi_sw, old.wifi_version_soft),
                !.mac = COALESCE(mac, old.mac),
                !.last_scan_payload = scan_payload_raw,
                !.last_seen_ms = IF seen_ms > old.last_seen_ms THEN seen_ms
                                 ELSE old.last_seen_ms]
    IN  [st EXCEPT !.devices =
            IF exists THEN [@ EXCEPT ![d] = updated]
            ELSE (d :> inserted) @@ @]

\* upsert_device_from_scan writing first_seen on every call, as the INSERT does.
upsert_resetting_first_seen(st, device_id, ip, sku, ble_hw, ble_sw, wifi_hw, wifi_sw, mac, scan_payload_raw, seen_ms) ==
    LET d == device_id.v
        exists == d \in DOMAIN st.devices
        inserted ==
            [ip |-> ip, sku |-> sku,
             ble_version_hard |-> ble_hw, ble_version_soft |-> ble_sw,
             wifi_version_hard |-> wifi_hw, wifi_version_soft |-> wifi_sw,
             mac |-> mac,
             last_scan_payload |-> scan_payload_raw,
             last_status_payload |-> None,
             first_seen_ms |-> seen_ms, last_seen_ms |-> seen_ms,
             extra_json |-> json_dumps(Obj(EmptyMap))]
        old == st.devices[d]
        updated ==
            [old EXCEPT
                !.ip = COALESCE(ip, old.ip),
                !.sku = COALESCE(sku, old.sku),
                !.ble_version_hard = COALESCE(ble_hw, old.ble_version_hard),
                !.ble_version_soft = COALESCE(ble_sw, old.ble_version_soft),
                !.wifi_version_hard = COALESCE(wifi_hw, old.wifi_version_hard),
                !.wifi_version_soft = COALESCE(wifi_sw, old.wifi_version_soft),
                !.mac = COALESCE(mac, old.mac),
                !.last_scan_payload = scan_payload_raw,
                !.first_seen_ms = seen_ms,
                !.last_seen_ms = seen_ms]
    IN  [st EXCEPT !.devices =
            IF exists THEN [@ EXCEPT ![d] = updated]
            ELSE (d :> inserted) @@ @]

\* upsert_device_from_scan keeping the earliest seen time as first_seen.
upsert_earliest_first_seen(st, device_id, ip, sku, ble_hw, ble_sw, wifi_hw, wifi_sw, mac, scan_payload_raw, seen_ms) ==
    LET d == device_id.v
        exists == d \in DOMAIN st.devices
        inserted ==
            [ip |-> ip, sku |-> sku,
             ble_version_hard |-> ble_hw, ble_version_soft |-> ble_sw,
             wifi_version_hard |-> wifi_hw, wifi_version_soft |-> wifi_sw,
             mac |-> mac,
             last_scan_payload |-> scan_payload_raw,
             last_status_payload |-> None,
             first_seen_ms |-> seen_ms, last_seen_ms |-> seen_ms,
             extra_json |-> json_dumps(Obj(EmptyMap))]
        old == st.devices[d]
        updated ==
            [old EXCEPT
                !.ip = COALESCE(ip, old.ip),
                !.sku = COALESCE(sku, old.sku),
                !.ble_version_hard = COALESCE(ble_hw, old.ble_version_hard),
                !.ble_version_soft = COALESCE(ble_sw, old.ble_version_soft),
                !.wifi_version_hard = COALESCE(wifi_hw, old.wifi_version_hard),
                !.wifi_version_soft = COALESCE(wifi_sw, old.wifi_version_soft),
                !.mac = COALESCE(mac, old.mac),
                !.last_scan_payload = scan_payload_raw,
                !.first_seen_ms = IF seen_ms < old.first_seen_ms THEN seen_ms ELSE old.first_seen_ms,
                !.last_seen_ms = seen_ms]
    IN  [st EXCEPT !.devices =
            IF exists THEN [@ EXCEPT ![d] = updated]
            ELSE (d :> inserted) @@ @]

upsert_device_from_scan(st, device_id, ip, sku, ble_hw, ble_sw, wifi_hw, wifi_sw, mac, scan_payload_raw, seen_ms) ==
    LET d == device_id.v
        exists == d \in DOMAIN st.devices
        first_seen_ms ==
            IF exists THEN st.devices[d].first_seen_ms ELSE seen_ms
        inserted ==
            [ip |-> ip, sku |-> sku,
             ble_version_hard |-> ble_hw, ble_version_soft |-> ble_sw,
             wifi_version_hard |-> wifi_hw, wifi_version_soft |-> wifi_sw,
             mac |-> mac,
             last_scan_payload |-> scan_payload_raw,
             last_status_payload |-> None,
             first_seen_ms |-> first_seen_ms, last_seen_ms |-> seen_ms,
             extra_json |-> json_dumps(Obj(EmptyMap))]
        old == st.devices[d]
        updated ==
            [old EXCEPT
                !.ip = COALESCE(ip, old.ip),
                !.sku = COALESCE(sku, old.sku),
                !.ble_version_hard = COALESCE(ble_hw, old.ble_version_hard),
                !.ble_version_soft = COALESCE(ble_sw, old.ble_version_soft),
                !.wifi_version_hard = COALESCE(wifi_hw, old.wifi_version_hard),
                !.wifi_version_soft = COALESCE(wifi_sw, old.wifi_version_soft),
                !.mac = COALESCE(mac, old.mac),
                !.last_scan_payload = scan_payload_raw,
                !.last_seen_ms = seen_ms]
    IN  [st EXCEPT !.devices =
            IF exists THEN [@ EXCEPT ![d] = updated]
            ELSE (d :> inserted) @@ @]

\* The statements of upsert_device_from_scan, one by one.  select_first_seen:
\* the SELECT and the choice of first_seen_ms on the rows a connection sees.
select_first_seen(st, c) ==
    IF c.device_id.v \in DOMAIN st.devices
    THEN st.devices[c.device_id.v].first_seen_ms ELSE c.seen_ms

\* An upsert whose DO UPDATE clause also sets first_seen_ms.
upsert_statement_setting_first_seen(st, c, first_seen_ms) ==
    LET d == c.device_id.v
        inserted ==
            [ip |-> c.ip, sku |-> c.sku,
             ble_version_hard |-> c.ble_hw, ble_version_soft |-> c.ble_sw,
             wifi_version_hard |-> c.wifi_hw, wifi_version_soft |-> c.wifi_sw,
             mac |-> c.mac,
             last_scan_payload |-> c.scan_payload_raw,
             last_status_payload |-> None,
             first_seen_ms |-> first_seen_ms, last_seen_ms |-> c.seen_ms,
             extra_json |-> json_dumps(Obj(EmptyMap))]
    IN  IF d \in DOMAIN st.devices
        THEN [st EXCEPT !.devices[d] =
                [@ EXCEPT
                    !.ip = COALESCE(c.ip, @),
                    !.sku = COALESCE(c.sku, @),
                    !.ble_version_hard = COALESCE(c.ble_hw, @),
                    !.ble_version_soft = COALESCE(c.ble_sw, @),
                    !.wifi_version_hard = COALESCE(c.wifi_hw, @),
                    !.wifi_version_soft = COALESCE(c.wifi_sw, @),
                    !.mac = COALESCE(c.mac, @),
                    !.last_scan_payload = c.scan_payload_raw,
                    !.first_seen_ms = first_seen_ms,
                    !.last_seen_ms = c.seen_ms]]
        ELSE [st EXCEPT !.devices = (d :> inserted) @@ @]

\* upsert_statement: the INSERT ... ON CONFLICT(device_id) DO UPDATE, given
\* the first_seen_ms chosen before it, on the rows committed when it runs.
upsert_statement(st, c, first_seen_ms) ==
    LET d == c.device_id.v
        inserted ==
            [ip |-> c.ip, sku |-> c.sku,
             ble_version_hard |-> c.ble_hw, ble_version_soft |-> c.ble_sw,
             wifi_version_hard |-> c.wifi_hw, wifi_version_soft |-> c.wifi_sw,
             mac |-> c.mac,
             last_scan_payload |-> c.scan_payload_raw,
             last_status_payload |-> None,
             first_seen_ms |-> first_seen_ms, last_seen_ms |-> c.seen_ms,
             extra_json |-> json_dumps(Obj(EmptyMap))]
    IN  IF d \in DOMAIN st.devices
        THEN [st EXCEPT !.devices[d] =
                [@ EXCEPT
                    !.ip = COALESCE(c.ip, @),
                    !.sku = COALESCE(c.sku, @),
                    !.ble_version_hard = COALESCE(c.ble_hw, @),
                    !.ble_version_soft = COALESCE(c.ble_sw, @),
                    !.wifi_version_hard = COALESCE(c.wifi_hw, @),
                    !.wifi_version_soft = COALESCE(c.wifi_sw, @),
                    !.mac = COALESCE(c.mac, @),
                    !.last_scan_payload = c.scan_payload_raw,
                    !.last_seen_ms = c.seen_ms]]
        ELSE [st EXCEPT !.devices = (d :> inserted) @@ @]

\* The statements of record_interrogation, one by one: the INSERT, the test
\* that guards the UPDATE, the UPDATE.
insert_interrogation(st, c) ==
    [st EXCEPT !.interrogations =
        Append(@, [device_id |-> c.device_id, ip |-> c.ip, cmd |-> c.cmd,
                   sent_at_ms |-> c.sent_at_ms, received_at_ms |-> c.received_at_ms,
                   success |-> IF c.success THEN 1 ELSE 0, error |-> c.error,
                   request_json |-> json_dumps(c.request_obj),
                   response_json |->
                       IF c.response_obj # None THEN json_dumps(c.response_obj)
                       ELSE None])]

updates_last_status(c) ==
    c.success /\ Truthy(c.device_id) /\ c.response_obj # None /\ c.cmd = "devStatus"

update_last_status(st, c) ==
    IF c.device_id.v \in DOMAIN st.devices
    THEN [st EXCEPT !.devices[c.device_id.v].last_status_payload =
                        json_dumps(c.response_obj)]
    ELSE st

\* record_interrogation that would also advance last_seen_ms of the device
\* to the time its reply was received.
record_interrogation_touching_last_seen(st, device_id, ip, cmd, sent_at_ms, received_at_ms, success, error, request_obj, response_obj) ==
    LET row ==
            [device_id |-> device_id, ip |-> ip, cmd |-> cmd,
             sent_at_ms |-> sent_at_ms, received_at_ms |-> received_at_ms,
             success |-> IF success THEN 1 ELSE 0, error |-> error,
             request_json |-> json_dumps(request_obj),
             response_json |->
                 IF response_obj # None THEN json_dumps(response_obj) ELSE None]
        st1 == [st EXCEPT !.interrogations = Append(@, row)]
    IN  IF success /\ Truthy(device_id) /\ response_obj # None /\ cmd = "devStatus"
        THEN \* UPDATE ... WHERE device_id=?: touches a row only if it exists
             IF device_id.v \in DOMAIN st1.devices
             THEN [st1 EXCEPT !.devices[device_id.v].last_status_payload =
                                  json_dumps(response_obj),
                              !.devices[device_id.v].last_seen_ms = received_at_ms.n]
             ELSE st1
        ELSE st1

record_interrogation(st, device_id, ip, cmd, sent_at_ms, received_at_ms, success, error, request_obj, response_obj) ==
    LET row ==
            [device_id |-> device_id, ip |-> ip, cmd |-> cmd,
             sent_at_ms |-> sent_at_ms, received_at_ms |-> received_at_ms,
             success |-> IF success THEN 1 ELSE 0, error |-> error,
             request_json |-> json_dumps(request_obj),
             response_json |->
                 IF response_obj # None THEN json_dumps(response_obj) ELSE None]
        st1 == [st EXCEPT !.interrogations = Append(@, row)]
    IN  IF success /\ Truthy(device_id) /\ response_obj # None /\ cmd = "devStatus"
        THEN \* UPDATE ... WHERE device_id=?: touches a row only if it exists
             IF device_id.v \in DOMAIN st1.devices
             THEN [st1 EXCEPT !.devices[device_id.v].last_status_payload =
                                  json_dumps(response_obj)]
             ELSE st1
        ELSE st1

set_kv(st, device_id, key, value, now) ==
    [st EXCEPT !.device_kv =
        (<<device_id.v, key>> :> [value |-> json_dumps(value), updated_at_ms |-> now])
        @@ @]

\* The query without its WHERE clause: devices without an address are listed.
list_device_targets_with_unaddressed(st) ==
    LET ids == DOMAIN st.devices
        n == Cardinality(ids)
    IN  {[i \in 1..n |->
            [device_id |-> StrV(o[i]), ip |-> st.devices[o[i]].ip,
             sku |-> st.devices[o[i]].sku]] :
         o \in {p \in [1..n -> ids] :
                  /\ \A i, j \in 1..n : i # j => p[i] # p[j]
                  /\ \A i, j \in 1..n :
                        i < j => st.devices[p[i]].last_seen_ms
                                   >= st.devices[p[j]].last_seen_ms}}

\* SELECT device_id, ip, sku FROM devices WHERE ip IS NOT NULL
\* ORDER BY last_seen_ms DESC.  Rows with equal last_seen_ms come in an order
\* SQL leaves open: every sequence that holds each such row once and never
\* puts an older row before a newer one is a possible result.
list_device_targets(st) ==
    LET ids == {d \in DOMAIN st.devices : st.devices[d].ip # None}
        n == Cardinality(ids)
    IN  {[i \in 1..n |->
            [device_id |-> StrV(o[i]), ip |-> st.devices[o[i]].ip,
             sku |-> st.devices[o[i]].sku]] :
         o \in {p \in [1..n -> ids] :
                  /\ \A i, j \in 1..n : i # j => p[i] # p[j]
                  /\ \A i, j \in 1..n :
                        i < j => st.devices[p[i]].last_seen_ms
                                   >= st.devices[p[j]].last_seen_ms}}

\* ---------------------------------------------------------------- discovery

\* parse_scan_response without the test of the command name.
parse_scan_response_any_cmd(obj) ==
    LET msg == Get(obj, "msg") IN
    IF ~IsDict(msg) THEN None
    ELSE LET data == Get(msg, "data") IN
         IF ~IsDict(data) THEN None ELSE data

parse_scan_response(obj) ==
    LET msg == Get(obj, "msg") IN
    IF ~IsDict(msg) THEN None
    ELSE IF Get(msg, "cmd") # StrV("scan") THEN None
    ELSE LET data == Get(msg, "data") IN
         IF ~IsDict(data) THEN None ELSE data

StrOrNone(x) == IF IsStr(x) THEN x ELSE None

\* The decision part of DiscoveryProtocol.datagram_received: the arguments of
\* the upsert_device_from_scan call the datagram leads to, None when it leads
\* to none.  neigh is what ip_neigh_mac would return for the announced ip.
scan_call(rm, data, received_at, neigh) ==
    LET parsed == safe_json_loads(data) IN
    IF ~IsDict(parsed) THEN None
    ELSE LET scan_data == parse_scan_response(parsed) IN
    IF ~Truthy(scan_data) THEN None
    ELSE LET ip == Get(scan_data, "ip")
             device_id == Get(scan_data, "device")
             mac == IF rm /\ IsStr(ip) THEN neigh ELSE None
         IN  IF IsStr(device_id) /\ Truthy(device_id)
             THEN [t |-> "call",
                   device_id |-> device_id,
                   ip |-> StrOrNone(ip),
                   sku |-> StrOrNone(Get(scan_data, "sku")),
                   ble_hw |-> StrOrNone(Get(scan_data, "bleVersionHard")),
                   ble_sw |-> StrOrNone(Get(scan_data, "bleVersionSoft")),
                   wifi_hw |-> StrOrNone(Get(scan_data, "wifiVersionHard")),
                   wifi_sw |-> StrOrNone(Get(scan_data, "wifiVersionSoft")),
                   mac |-> mac,
                   scan_payload_raw |-> json_dumps(parsed),
                   seen_ms |-> received_at]
             ELSE None

\* datagram_received logging the event only once the datagram has parsed.
datagram_received_log_after_parse(st, rm, data, addr, received_at, neigh) ==
    LET c == scan_call(rm, data, received_at, neigh)
        st1 == IF IsDict(safe_json_loads(data))
               THEN insert_scan_event(st, received_at, addr[1], addr[2],
                                      decode_replace(data))
               ELSE st
    IN  IF c = None THEN st1
        ELSE upsert_device_from_scan(st1, c.device_id, c.ip, c.sku, c.ble_hw,
                                     c.ble_sw, c.wifi_hw, c.wifi_sw, c.mac,
                                     c.scan_payload_raw, c.seen_ms)

\* datagram_received giving up on scan responses once an undecodable
\* datagram has been handled.
datagram_received_stalled_by_garbage(st, rm, data, addr, received_at, neigh) ==
    LET st1 == insert_scan_event(st, received_at, addr[1], addr[2],
                                 decode_replace(data))
        c == scan_call(rm, data, received_at, neigh)
        stalled == \E i \in 1..Len(st.scan_events) :
                      st.scan_events[i].payload_raw = StrV("\\ufffd")
    IN  IF c = None \/ stalled THEN st1
        ELSE upsert_device_from_scan(st1, c.device_id, c.ip, c.sku, c.ble_hw,
                                     c.ble_sw, c.wifi_hw, c.wifi_sw, c.mac,
                                     c.scan_payload_raw, c.seen_ms)

datagram_received(st, rm, data, addr, received_at, neigh) ==
    LET st1 == insert_scan_event(st, received_at, addr[1], addr[2],
                                 decode_replace(data))
        c == scan_call(rm, data, received_at, neigh)
    IN  IF c = None THEN st1
        ELSE upsert_device_from_scan(st1, c.device_id, c.ip, c.sku, c.ble_hw,
                                     c.ble_sw, c.wifi_hw, c.wifi_sw, c.mac,
                                     c.scan_payload_raw, c.seen_ms)

\* ------------------------------------------------------------ interrogation

build_dev_status_request(device_id, sku) ==
    LET d1 == IF Truthy(device_id) THEN ("device" :> device_id) ELSE EmptyMap
        d2 == IF Truthy(sku) THEN ("sku" :> sku) ELSE EmptyMap
    IN  Envelope(StrV("devStatus"), Obj(d1 @@ d2))

is_dev_status_response(obj) ==
    LET msg == Get(obj, "msg") IN
    IF ~IsDict(msg) THEN FALSE ELSE Get(msg, "cmd") = StrV("devStatus")

extract_status_data(obj) ==
    LET msg == Get(obj, "msg") IN
    IF ~IsDict(msg) THEN None
    ELSE LET data == Get(msg, "data") IN
         IF ~IsDict(data) THEN None ELSE data

\* What interrogate_device_dev_status returns: (ok, resp, err).
Result(ok, resp, err) == [ok |-> ok, resp |-> resp, err |-> err]

\* interrogate_device_dev_status once the receive loop has left with obj.
\* dev_status_result dropping a reply whose command is not devStatus.
dev_status_result_discarding(obj) ==
    IF ~is_dev_status_response(obj)
    THEN Result(FALSE, None, StrV("unexpected_cmd"))
    ELSE Result(TRUE, obj, None)

dev_status_result(obj) ==
    IF ~is_dev_status_response(obj)
    THEN Result(TRUE, obj, StrV("unexpected_cmd"))
    ELSE Result(TRUE, obj, None)

\* The receive loop goes round again.
Again == [again |-> TRUE]

\* A receive loop that takes whatever the first datagram holds: a payload that
\* is no JSON object ends the call as invalid_json.
recv_step_single_receive(obj) ==
    IF IsDict(obj) THEN dev_status_result(obj)
    ELSE Result(FALSE, None, StrV("invalid_json"))

\* One round of the receive loop of interrogate_device_dev_status on the
\* parse obj of the datagram recvfrom returned.
recv_step(obj) ==
    IF IsDict(obj) THEN dev_status_result(obj) ELSE Again

StatusKeys == <<"onOff", "brightness", "color", "colorTemInKelvin">>

\* enrich_from_dev_status; now is what now_ms() returns inside set_kv (the
\* clock is read as one value throughout a step).
RECURSIVE enrich_keys(_, _, _, _, _)
enrich_keys(st, device_id, data, now, i) ==
    IF i > Len(StatusKeys) THEN st
    ELSE LET k == StatusKeys[i]
             st1 == IF k \in DOMAIN data.kv
                    THEN set_kv(st, device_id, "status." \o k, data.kv[k], now)
                    ELSE st
         IN  enrich_keys(st1, device_id, data, now, i + 1)

\* enrich_from_dev_status clearing the status entries the reply does not name.
enrich_from_dev_status_clearing_absent(st, device_id, status_obj, now) ==
    LET data == extract_status_data(status_obj)
        kept == {key \in DOMAIN st.device_kv : key[1] # device_id.v}
        cleared == [st EXCEPT !.device_kv = [key \in kept |-> st.device_kv[key]]]
    IN  IF ~Truthy(data) THEN st
        ELSE enrich_keys(cleared, device_id, data, now, 1)

enrich_from_dev_status(st, device_id, status_obj, now) ==
    LET data == extract_status_data(status_obj) IN
    IF ~Truthy(data) THEN st
    ELSE enrich_keys(st, device_id, data, now, 1)

\* interrogate_all stamping received_at on every attempt, failed ones too.
interrogate_all_record_stamping_failures(st, target, sent, res, now, enrich) ==
    LET st1 == record_interrogation(st, target.device_id, target.ip, "devStatus",
                   sent, IntV(now), res.ok, res.err,
                   build_dev_status_request(target.device_id, target.sku),
                   res.resp)
    IN  IF res.ok /\ Truthy(res.resp) /\ enrich /\ Truthy(target.device_id)
        THEN enrich_from_dev_status(st1, target.device_id, res.resp, now)
        ELSE st1

\* interrogate_all keeping the response of clean replies only: the row of a
\* reply tagged with an error gets no response.
interrogate_all_record_dropping_tagged(st, target, sent, res, now, enrich) ==
    LET received_ms == IF res.ok THEN IntV(now) ELSE None
        st1 == record_interrogation(st, target.device_id, target.ip, "devStatus",
                   sent, received_ms, res.ok, res.err,
                   build_dev_status_request(target.device_id, target.sku),
                   IF res.err = None THEN res.resp ELSE None)
    IN  IF res.ok /\ Truthy(res.resp) /\ enrich /\ Truthy(target.device_id)
        THEN enrich_from_dev_status(st1, target.device_id, res.resp, now)
        ELSE st1

\* The part of one iteration of interrogate_all that follows the exchange:
\* the Interrogation row, then the enrichment.
interrogate_all_record(st, target, sent, res, now, enrich) ==
    LET received_ms == IF res.ok THEN IntV(now) ELSE None
        st1 == record_interrogation(st, target.device_id, target.ip, "devStatus",
                   sent, received_ms, res.ok, res.err,
                   build_dev_status_request(target.device_id, target.sku),
                   res.resp)
    IN  IF res.ok /\ Truthy(res.resp) /\ enrich /\ Truthy(target.device_id)
        THEN enrich_from_dev_status(st1, target.device_id, res.resp, now)
        ELSE st1

\* {t["ip"]: t for t in list_device_targets()}.get(ip): of the rows with
\* that ip, the last of the list.
RECURSIVE known_target(_, _)
known_target(lst, ip) ==
    IF lst = <<>> THEN None
    ELSE IF lst[Len(lst)].ip = ip THEN lst[Len(lst)]
    ELSE known_target(SubSeq(lst, 1, Len(lst) - 1), ip)

\* The explicit target list with the device id "unknown" for an ip the
\* registry does not know.
RECURSIVE explicit_targets_naming_unknown(_, _, _)
explicit_targets_naming_unknown(lst, ips, seen_ips) ==
    IF ips = <<>> THEN <<>>
    ELSE IF Head(ips) \in seen_ips
         THEN explicit_targets_naming_unknown(lst, Tail(ips), seen_ips)
         ELSE LET known == known_target(lst, Head(ips))
                  t == [device_id |-> IF known # None THEN known.device_id
                                      ELSE StrV("unknown"),
                        ip |-> Head(ips),
                        sku |-> IF known # None THEN known.sku ELSE None]
              IN  <<t>> \o explicit_targets_naming_unknown(lst, Tail(ips),
                                                           seen_ips \cup {Head(ips)})

RECURSIVE explicit_targets(_, _, _)
explicit_targets(lst, ips, seen_ips) ==
    IF ips = <<>> THEN <<>>
    ELSE IF Head(ips) \in seen_ips
         THEN explicit_targets(lst, Tail(ips), seen_ips)
         ELSE LET known == known_target(lst, Head(ips))
                  t == [device_id |-> IF known # None THEN known.device_id ELSE None,
                        ip |-> Head(ips),
                        sku |-> IF known # None THEN known.sku ELSE None]
              IN  <<t>> \o explicit_targets(lst, Tail(ips), seen_ips \cup {Head(ips)})

SelectSeq2(seq, allowed) ==
    LET F[i \in 0..Len(seq)] ==
            IF i = 0 THEN <<>>
            ELSE IF seq[i].ip \in allowed THEN Append(F[i - 1], seq[i]) ELSE F[i - 1]
    IN  F[Len(seq)]

\* The target list of interrogate_all; lst is what list_device_targets
\* returned, an absent argument is None, a list is [t |-> "list", items |-> _].
resolve_targets(lst, only_ips, target_ips) ==
    IF target_ips # None THEN explicit_targets(lst, target_ips.items, {})
    ELSE IF only_ips # None /\ only_ips.items # <<>>
         THEN SelectSeq2(lst, {only_ips.items[i] : i \in 1..Len(only_ips.items)})
         ELSE lst

\* ------------------------------------------------------------------ control

build_turn_command(on) ==
    Envelope(StrV("turn"), Obj([value |-> IF on THEN Num("1") ELSE Num("0")]))

\* A str whose characters the program inspects is the sequence of its
\* characters, [t |-> "str", chars |-> <<"r", "e", "d">>]; Text is the
\* string they spell.
Str(chars) == [t |-> "str", chars |-> chars]

RECURSIVE Text(_)
Text(s) == IF s = <<>> THEN "" ELSE Head(s) \o Text(Tail(s))

Whitespace == {" ", "\t", "\n", "\r"}

RECURSIVE lstrip(_)
lstrip(s) == IF s # <<>> /\ Head(s) \in Whitespace THEN lstrip(Tail(s)) ELSE s

RECURSIVE rstrip(_)
rstrip(s) ==
    IF s # <<>> /\ s[Len(s)] \in Whitespace
    THEN rstrip(SubSeq(s, 1, Len(s) - 1)) ELSE s

\* str.strip()
strip(s) == rstrip(lstrip(s))

UpperCase == <<"A", "B", "C", "D", "E", "F", "G", "H", "I", "J", "K", "L", "M", "N", "O", "P", "Q", "R", "S", "T", "U", "V", "W", "X", "Y", "Z">>
LowerCase == <<"a", "b", "c", "d", "e", "f", "g", "h", "i", "j", "k", "l", "m", "n", "o", "p", "q", "r", "s", "t", "u", "v", "w", "x", "y", "z">>

\* str.lower(), on ASCII text
lower(s) ==
    [i \in 1..Len(s) |->
        IF \E k \in 1..Len(UpperCase) : UpperCase[k] = s[i]
        THEN LowerCase[CHOOSE k \in 1..Len(UpperCase) : UpperCase[k] = s[i]]
        ELSE s[i]]

HexDigits == <<"0", "1", "2", "3", "4", "5", "6", "7", "8", "9", "a", "b", "c", "d", "e", "f">>

\* int(c, 16) of one character; the digits A..F count as a..f
HexValue(c) == (CHOOSE k \in 1..Len(HexDigits) : HexDigits[k] = lower(<<c>>)[1]) - 1

\* COLOR_HEX_RE.match(s).group(1): an optional '#', six characters of
\* [0-9a-fA-F], the end of the string or a newline that ends it; <<>> when the
\* pattern does not match.
COLOR_HEX_RE(s) ==
    LET t == IF s # <<>> /\ Head(s) = "#" THEN Tail(s) ELSE s
        digits == IF t # <<>> /\ t[Len(t)] = "\n" THEN SubSeq(t, 1, Len(t) - 1) ELSE t
    IN  IF /\ Len(digits) = 6
           /\ \A i \in 1..6 : \E k \in 1..Len(HexDigits) : HexDigits[k] = lower(<<digits[i]>>)[1]
        THEN digits ELSE <<>>

\* A tuple (r, g, b).
RGB(r, g, b) == [t |-> "tuple", v |-> <<r, g, b>>]

\* raise ValueError(msg)
ValueError(msg) == [t |-> "raise", exc |-> "ValueError", msg |-> msg]
Raised(x) == x.t = "raise"

COMMON_COLORS ==
    ("red" :> RGB(255, 0, 0)) @@ ("green" :> RGB(0, 255, 0))
    @@ ("blue" :> RGB(0, 0, 255)) @@ ("white" :> RGB(255, 255, 255))
    @@ ("warmwhite" :> RGB(255, 244, 229)) @@ ("yellow" :> RGB(255, 255, 0))
    @@ ("orange" :> RGB(255, 165, 0)) @@ ("purple" :> RGB(128, 0, 128))
    @@ ("pink" :> RGB(255, 105, 180)) @@ ("cyan" :> RGB(0, 255, 255))
    @@ ("magenta" :> RGB(255, 0, 255))

parse_color(value) ==
    LET normalized == lower(strip(value.chars))
        match == COLOR_HEX_RE(normalized)
    IN  IF Text(normalized) \in DOMAIN COMMON_COLORS
        THEN COMMON_COLORS[Text(normalized)]
        ELSE IF match = <<>> THEN ValueError("unsupported color value")
        ELSE RGB(16 * HexValue(match[1]) + HexValue(match[2]),
                 16 * HexValue(match[3]) + HexValue(match[4]),
                 16 * HexValue(match[5]) + HexValue(match[6]))

build_brightness_command(value) ==
    Envelope(StrV("brightness"), Obj([value |-> IntV(value)]))

\* {"r": r, "g": g, "b": b} of a tuple
ColorObj(color) ==
    Obj([r |-> IntV(color.v[1]), g |-> IntV(color.v[2]), b |-> IntV(color.v[3])])

build_color_command(r, g, b) ==
    Envelope(StrV("colorwc"), Obj([color |-> ColorObj(RGB(r, g, b))]))

build_color_temp_command(kelvin) ==
    Envelope(StrV("colorwc"), Obj([colorTemInKelvin |-> IntV(kelvin)]))

build_colorwc_command(kelvin, color) ==
    LET d1 == [colorTemInKelvin |-> IntV(kelvin)]
        d2 == IF color # None THEN [color |-> ColorObj(color)] ELSE EmptyMap
    IN  Envelope(StrV("colorwc"), Obj(d1 @@ d2))

\* round(n / d) of Python 3 for n >= 0 and d > 0: the nearest integer, the even
\* one of the two when n / d lies half way.  No quotient c * 100 / 255 with
\* an integer c lies half way (40 c is even, 51 (2 k + 1) is odd) and each is
\* at least 1/510 from it, so the float quotient the code rounds gives the
\* integer the exact quotient gives.
round(n, d) ==
    LET q == n \div d
        r == n % d
    IN  IF 2 * r < d THEN q
        ELSE IF 2 * r > d THEN q + 1
        ELSE IF q % 2 = 0 THEN q ELSE q + 1

\* Scaling that drops the fraction instead of rounding.
_scale_color_truncating(color, scale_max) ==
    IF scale_max \notin {100, 255} THEN ValueError("color scale must be 100 or 255")
    ELSE IF scale_max = 255 THEN color
    ELSE RGB((color.v[1] * scale_max) \div 255, (color.v[2] * scale_max) \div 255,
             (color.v[3] * scale_max) \div 255)

_scale_color(color, scale_max) ==
    IF scale_max \notin {100, 255} THEN ValueError("color scale must be 100 or 255")
    ELSE IF scale_max = 255 THEN color
    ELSE RGB(round(color.v[1] * scale_max, 255), round(color.v[2] * scale_max, 255),
             round(color.v[3] * scale_max, 255))

\* build_color_payload taking a Kelvin of zero.
build_color_payload_zero_kelvin(command, color, kelvin, scale_max) ==
    LET cmd == Text(strip(command.chars))
        d1 == IF color # None
              THEN [color |-> ColorObj(_scale_color(color, scale_max))] ELSE EmptyMap
        d2 == IF kelvin # None THEN [colorTemInKelvin |-> kelvin] ELSE EmptyMap
        data == d1 @@ d2
    IN  IF cmd \notin {"color", "colorwc", "setColor", "setColorWC"}
        THEN ValueError("unsupported color command")
        ELSE IF scale_max \notin {100, 255}
        THEN ValueError("color scale must be 100 or 255")
        ELSE IF kelvin # None /\ kelvin.n < 0
        THEN ValueError("kelvin must be positive when provided")
        ELSE IF cmd \in {"color", "setColor"} /\ "color" \notin DOMAIN data
        THEN ValueError("command requires a color value")
        ELSE IF cmd \in {"colorwc", "setColorWC"} /\ "colorTemInKelvin" \notin DOMAIN data
        THEN ValueError("command requires a positive kelvin value")
        ELSE Envelope(StrV(cmd), Obj(data))

\* build_color_payload asking a colour of no command.
build_color_payload_color_optional(command, color, kelvin, scale_max) ==
    LET cmd == Text(strip(command.chars))
        d1 == IF color # None
              THEN [color |-> ColorObj(_scale_color(color, scale_max))] ELSE EmptyMap
        d2 == IF kelvin # None THEN [colorTemInKelvin |-> kelvin] ELSE EmptyMap
        data == d1 @@ d2
    IN  IF cmd \notin {"color", "colorwc", "setColor", "setColorWC"}
        THEN ValueError("unsupported color command")
        ELSE IF scale_max \notin {100, 255}
        THEN ValueError("color scale must be 100 or 255")
        ELSE IF kelvin # None /\ kelvin.n <= 0
        THEN ValueError("kelvin must be positive when provided")
        ELSE IF cmd \in {"colorwc", "setColorWC"} /\ "colorTemInKelvin" \notin DOMAIN data
        THEN ValueError("command requires a positive kelvin value")
        ELSE Envelope(StrV(cmd), Obj(data))

\* build_color_payload(command, color=, kelvin=, scale_max=): color is None or a
\* tuple, kelvin is None or an int.
build_color_payload(command, color, kelvin, scale_max) ==
    LET cmd == Text(strip(command.chars))
        d1 == IF color # None
              THEN [color |-> ColorObj(_scale_color(color, scale_max))] ELSE EmptyMap
        d2 == IF kelvin # None THEN [colorTemInKelvin |-> kelvin] ELSE EmptyMap
        data == d1 @@ d2
    IN  IF cmd \notin {"color", "colorwc", "setColor", "setColorWC"}
        THEN ValueError("unsupported color command")
        ELSE IF scale_max \notin {100, 255}
        THEN ValueError("color scale must be 100 or 255")
        ELSE IF kelvin # None /\ kelvin.n <= 0
        THEN ValueError("kelvin must be positive when provided")
        ELSE IF cmd \in {"color", "setColor"} /\ "color" \notin DOMAIN data
        THEN ValueError("command requires a color value")
        ELSE IF cmd \in {"colorwc", "setColorWC"} /\ "colorTemInKelvin" \notin DOMAIN data
        THEN ValueError("command requires a positive kelvin value")
        ELSE Envelope(StrV(cmd), Obj(data))

\* What the one recvfrom of send_control_command yields.
RxTimeout == [kind |-> "timeout"]
RxError == [kind |-> "oserror"]
RxData(data) == [kind |-> "data", data |-> data]

\* send_control_command without the inner except clause: socket.timeout is an
\* OSError and falls to the outer handler.
send_control_command_timeout_as_oserror(wait_response, tx, rx) ==
    IF tx = "oserror" THEN Result(FALSE, None, StrV("oserror:sendto"))
    ELSE IF tx = "error" THEN Result(FALSE, None, StrV("error:sendto"))
    ELSE IF ~wait_response THEN Result(TRUE, None, None)
    ELSE IF rx.kind = "timeout" THEN Result(FALSE, None, StrV("oserror:timed out"))
    ELSE IF rx.kind = "oserror" THEN Result(FALSE, None, StrV("oserror:recvfrom"))
    ELSE LET resp == safe_json_loads(rx.data) IN
         IF ~IsDict(resp) THEN Result(TRUE, None, StrV("invalid_json"))
         ELSE Result(TRUE, resp, None)

\* The value send_control_command returns, given whether sendto succeeded
\* ("ok"), raised OSError ("oserror") or raised another exception ("error",
\* e.g. a host name that cannot be encoded), and what recvfrom yielded; rx is
\* read only when the send succeeded and a response is awaited.
send_control_command(wait_response, tx, rx) ==
    IF tx = "oserror" THEN Result(FALSE, None, StrV("oserror:sendto"))
    ELSE IF tx = "error" THEN Result(FALSE, None, StrV("error:sendto"))
    ELSE IF ~wait_response THEN Result(TRUE, None, None)
    ELSE IF rx.kind = "timeout" THEN Result(TRUE, None, StrV("timeout"))
    ELSE IF rx.kind = "oserror" THEN Result(FALSE, None, StrV("oserror:recvfrom"))
    ELSE LET resp == safe_json_loads(rx.data) IN
         IF ~IsDict(resp) THEN Result(TRUE, None, StrV("invalid_json"))
         ELSE Result(TRUE, resp, None)

\* ---------------------------------------------------------- scan requests

MCAST_GRP == "239.255.255.250"
SCAN_PORT == 4001
ScanDest == <<MCAST_GRP, SCAN_PORT>>

\* The payload of send_scan_requests.
ScanRequest ==
    Envelope(StrV("scan"), Obj([account_topic |-> StrV("reserve")]))

\* range(max(1, repeat)): the number of iterations of the send loop.
send_count(repeat) == IF repeat > 1 THEN repeat ELSE 1

\* The loop sleeping after each of its sends.
sleeps_after_every_send(i, repeat) == TRUE

\* if i + 1 < repeat: the loop sleeps after its send number i (from 0).
sleeps_after(i, repeat) == i + 1 < repeat

\* ------------------------------------------------- inputs of the listener

FieldsFull1 ==
    [ip |-> StrV("192.168.1.50"), sku |-> StrV("H6159"),
     bleVersionHard |-> StrV("1.0"), bleVersionSoft |-> StrV("1.0"),
     wifiVersionHard |-> StrV("1.0"), wifiVersionSoft |-> StrV("1.0")]
FieldsFull2 ==
    [ip |-> StrV("192.168.1.51"), sku |-> StrV("H6160"),
     bleVersionHard |-> StrV("2.0"), bleVersionSoft |-> StrV("2.0"),
     wifiVersionHard |-> StrV("2.0"), wifiVersionSoft |-> StrV("2.0")]
FieldsIpSku == [ip |-> StrV("192.168.1.50"), sku |-> StrV("H6159")]
FieldsNonStr == [ip |-> NumV, sku |-> NumV, bleVersionSoft |-> NumV, other |-> NumV]
FieldsSingle ==
    {[sku |-> StrV("H6160")], [wifiVersionSoft |-> StrV("2.0")]}

\* data objects of scan envelopes that name a device
ScanDataNamed ==
    {Obj(("device" :> StrV("ABCD1234")) @@ f) :
        f \in {FieldsFull1, FieldsFull2, FieldsIpSku, FieldsNonStr, EmptyMap}
               \cup FieldsSingle}
    \cup {Obj(("device" :> StrV("EF567890")) @@ f) : f \in {FieldsFull1}}

\* data objects without a usable device identifier
ScanDataUnnamed ==
    {Obj(EmptyMap), Obj(FieldsIpSku), Obj(("device" :> StrV("")) @@ FieldsIpSku),
     Obj(("device" :> NumV) @@ FieldsIpSku)}

ListenerPayloads ==
    {BadUtf8("ff fe"), BadUtf8("c3 28"), NotJson("M-SEARCH * HTTP/1.1"),
     JsonBytes(ArrV),
     JsonBytes(Obj([msg |-> StrV("scan")])),
     JsonBytes(Envelope(StrV("devStatus"), Obj(("device" :> StrV("ABCD1234")) @@ FieldsIpSku))),
     JsonBytes(Envelope(StrV("scan"), StrV("ABCD1234")))}
    \cup {JsonBytes(Envelope(StrV("scan"), d)) : d \in ScanDataNamed \cup ScanDataUnnamed}

SrcAddrs == {<<"192.168.1.50", 4001>>}

\* what the neighbour table may hold for an address
NeighResults == {None, StrV("aa:bb:cc:00:00:01"), StrV("aa:bb:cc:00:00:02")}

\* ------------------------------------------- inputs of direct store calls

\* Callers of upsert_device_from_scan pass each optional field as None or a
\* string; an observation is named by the set of fields it carries and by
\* which of two value tables the carried fields come from.
ObsFields == {"ip", "sku", "ble_hw", "ble_sw", "wifi_hw", "wifi_sw", "mac"}

ObsValues ==
    <<[ip |-> "192.168.1.50", sku |-> "H6159", ble_hw |-> "1.0",
       ble_sw |-> "1.1", wifi_hw |-> "1.2", wifi_sw |-> "1.3",
       mac |-> "aa:bb:cc:00:00:01", raw |-> "scan-1"],
      [ip |-> "192.168.1.51", sku |-> "H6160", ble_hw |-> "2.0",
       ble_sw |-> "2.1", wifi_hw |-> "2.2", wifi_sw |-> "2.3",
       mac |-> "aa:bb:cc:00:00:02", raw |-> "scan-2"]>>

ObsMasks ==
    {{}, ObsFields, {"ip", "sku"}} \cup {{f} : f \in ObsFields}

Observation(d, mask, k, seen_ms) ==
    [t |-> "call", device_id |-> StrV(d),
     ip |-> IF "ip" \in mask THEN StrV(ObsValues[k].ip) ELSE None,
     sku |-> IF "sku" \in mask THEN StrV(ObsValues[k].sku) ELSE None,
     ble_hw |-> IF "ble_hw" \in mask THEN StrV(ObsValues[k].ble_hw) ELSE None,
     ble_sw |-> IF "ble_sw" \in mask THEN StrV(ObsValues[k].ble_sw) ELSE None,
     wifi_hw |-> IF "wifi_hw" \in mask THEN StrV(ObsValues[k].wifi_hw) ELSE None,
     wifi_sw |-> IF "wifi_sw" \in mask THEN StrV(ObsValues[k].wifi_sw) ELSE None,
     mac |-> IF "mac" \in mask THEN StrV(ObsValues[k].mac) ELSE None,
     scan_payload_raw |-> StrV(ObsValues[k].raw),
     seen_ms |-> seen_ms]

Observations ==
    {Observation("ABCD1234", m, k, now) : m \in ObsMasks, k \in {1, 2}, now \in Times}
    \cup {Observation("EF567890", m, 1, now) : m \in {{}, ObsFields}, now \in Times}

\* ---------------------------------------------- inputs of interrogate_all

List(items) == [t |-> "list", items |-> items]

IpA == StrV("192.168.1.50")
IpB == StrV("192.168.1.51")
\* an address no device of the registry has
IpUnknown == StrV("192.168.1.60")
\* a host that is no target
IpOther == StrV("192.168.1.99")

TargetIpChoices == {None, List(<<IpA>>), List(<<IpUnknown, IpA, IpUnknown>>)}
OnlyIpChoices == {None, List(<<IpA>>)}

\* what a host may send to the control socket
DevStatusReply ==
    JsonBytes(Envelope(StrV("devStatus"),
                       Obj([onOff |-> Num("1"), brightness |-> Num("80")])))
UnexpectedReply ==
    JsonBytes(Envelope(StrV("turn"), Obj([onOff |-> Num("0")])))
ReplyPayloads ==
    {DevStatusReply, UnexpectedReply, JsonBytes(Obj(EmptyMap)),
     NotJson("NOTIFY * HTTP/1.1"), JsonBytes(ArrV)}

\* Registries the listener leaves behind: each is the result of handing the
\* listed datagrams to datagram_received, starting from a fresh database.
Heard(data, at) ==
    [data |-> data, addr |-> <<"192.168.1.50", 4001>>, at |-> at, neigh |-> None]
ScanOf(device, fields) ==
    JsonBytes(Envelope(StrV("scan"), Obj(("device" :> StrV(device)) @@ fields)))

InitHistories ==
    {<<>>,
     <<Heard(ScanOf("ABCD1234", FieldsIpSku), 1)>>,
     <<Heard(ScanOf("EF567890", FieldsFull1), 1), Heard(ScanOf("ABCD1234", FieldsFull2), 2)>>,
     <<Heard(ScanOf("ABCD1234", FieldsFull1), 1), Heard(ScanOf("EF567890", FieldsFull1), 1)>>}

RECURSIVE Replay(_)
Replay(h) ==
    IF h = <<>> THEN EmptyStore
    ELSE LET r == h[Len(h)] IN
         datagram_received(Replay(SubSeq(h, 1, Len(h) - 1)), FALSE,
                           r.data, r.addr, r.at, None)

RECURSIVE ReplayCalls(_)
ReplayCalls(h) ==
    IF h = <<>> THEN <<>>
    ELSE LET r == h[Len(h)]
             c == scan_call(FALSE, r.data, r.at, None)
             before == ReplayCalls(SubSeq(h, 1, Len(h) - 1))
         IN  IF c = None THEN before ELSE Append(before, c)

\* ------------------------------------------------------------------ actions

vars ==
    <<store, resolve_mac, received, upserts, ia, sock, mono, requests, answers,
      heard, sc, sr, cc, fc, db, rp>>

\* No interrogate_all call has been made.
IdleIA ==
    [pc |-> "idle", only_ips |-> None, target_ips |-> None, targets |-> <<>>,
     idx |-> 0, enrich |-> FALSE, sent |-> 0, orig_timeout |-> 0, deadline |-> 0]
NoSock == [state |-> "none", timeout |-> 0]

\* No send_control_command call has been made.
IdleSC ==
    [pc |-> "idle", calls |-> 0, ip |-> None, payload |-> None,
     wait_response |-> FALSE, sock |-> "none", sends |-> 0, recvs |-> 0, tx |-> "none",
     rx |-> [kind |-> "none"], result |-> None]

\* No run_scan call has been made.
IdleSR ==
    [lpc |-> "idle", spc |-> "idle", repeat |-> 0, i |-> 0,
     bound |-> FALSE, joined |-> FALSE, registered |-> FALSE,
     sent |-> <<>>, sleeps |-> 0, slept_last |-> FALSE]

\* No cmd_control call has been made.
IdleCC ==
    [pc |-> "idle", args |-> None, ip |-> None, payload |-> None,
     queue |-> <<>>, built |-> 0, rejected |-> 0, invalid |-> FALSE,
     reported |-> FALSE, socks |-> 0, sends |-> 0, rc |-> None]

\* No function of control.py has been called directly.
NoCall == [f |-> "none", args |-> <<>>, out |-> None]

\* No connection has a statement under way, nothing has been committed.
IdleConn == [pc |-> "idle", op |-> None, first_seen_ms |-> None, pending |-> None]
IdleDB ==
    [lock |-> "none", conns |-> [c \in {"A", "B"} |-> IdleConn],
     commits |-> <<>>, failed |-> 0]

\* run_color_probe has not been called.
IdleRP ==
    [pc |-> "idle", args |-> None, network |-> None, candidates |-> <<>>,
     queue |-> <<>>, first |-> TRUE, results |-> <<>>, log |-> <<>>]

control_vars == <<sc, sr, cc, fc, db, rp>>

InterrogationIdle ==
    /\ ia = IdleIA
    /\ sock = NoSock
    /\ mono = 0
    /\ requests = <<>>
    /\ answers = <<>>
    /\ heard = {}

interrogation_vars == <<ia, sock, mono, requests, answers, heard>>

Init ==
    /\ store = EmptyStore
    /\ resolve_mac \in BOOLEAN
    /\ received = <<>>
    /\ upserts = <<>>
    /\ InterrogationIdle
    /\ sc = IdleSC
    /\ sr = IdleSR
    /\ cc = IdleCC
    /\ fc = NoCall
    /\ db = IdleDB
    /\ rp = IdleRP

\* The event loop delivers one datagram, drawn from payloads, to
\* DiscoveryProtocol.datagram_received; ip_neigh_mac answers from neighs.
DatagramFrom(payloads, neighs) ==
    /\ Len(received) < MaxEvents
    /\ \E data \in payloads, addr \in SrcAddrs, now \in Times,
          neigh \in neighs :
          LET c == scan_call(resolve_mac, data, now, neigh) IN
          /\ store' = datagram_received(store, resolve_mac, data, addr, now, neigh)
          /\ received' = Append(received,
                [data |-> data, addr |-> addr, at |-> now,
                 neigh |-> IF c = None THEN None ELSE c.mac])
          /\ upserts' = IF c = None THEN upserts ELSE Append(upserts, c)
    /\ UNCHANGED <<resolve_mac, interrogation_vars, control_vars>>

DatagramReceived == DatagramFrom(ListenerPayloads, NeighResults)

Next == DatagramReceived

Spec == Init /\ [][Next]_vars

\* The store driven through its interface: a caller applies
\* upsert_device_from_scan to arbitrary observations.
InitStore ==
    /\ store = EmptyStore
    /\ resolve_mac = FALSE
    /\ received = <<>>
    /\ upserts = <<>>
    /\ InterrogationIdle
    /\ sc = IdleSC
    /\ sr = IdleSR
    /\ cc = IdleCC
    /\ fc = NoCall
    /\ db = IdleDB
    /\ rp = IdleRP

CallUpsert ==
    /\ Len(upserts) < MaxCalls
    /\ \E c \in Observations :
          /\ store' = upsert_device_from_scan(store, c.device_id, c.ip, c.sku,
                           c.ble_hw, c.ble_sw, c.wifi_hw, c.wifi_sw, c.mac,
                           c.scan_payload_raw, c.seen_ms)
          /\ upserts' = Append(upserts, c)
    /\ UNCHANGED <<resolve_mac, received, interrogation_vars, control_vars>>

NextStore == CallUpsert

SpecStore == InitStore /\ [][NextStore]_vars

\* ------------------------------------------------- interrogate_all, stepwise

\* One interrogate_all call against a registry the listener has filled.
InitInterrogate ==
    /\ \E h \in InitHistories :
          /\ store = Replay(h)
          /\ received = h
          /\ upserts = ReplayCalls(h)
    /\ resolve_mac = FALSE
    /\ InterrogationIdle
    /\ sc = IdleSC
    /\ sr = IdleSR
    /\ cc = IdleCC
    /\ fc = NoCall
    /\ db = IdleDB
    /\ rp = IdleRP

discovery_vars == <<resolve_mac, received, upserts, sc, sr, cc, fc, db, rp>>

CurrentTarget == ia.targets[ia.idx]

\* interrogate_all is called: the socket is made, the target list resolved.
IA_Start ==
    /\ ia.pc = "idle"
    /\ \E enrich \in BOOLEAN, only_ips \in OnlyIpChoices,
          target_ips \in TargetIpChoices, lst \in list_device_targets(store) :
          ia' = [ia EXCEPT !.pc = "loop",
                           !.only_ips = only_ips, !.target_ips = target_ips,
                           !.targets = resolve_targets(lst, only_ips, target_ips),
                           !.idx = 1, !.enrich = enrich]
    /\ sock' = [state |-> "open", timeout |-> TimeoutTicks]
    /\ UNCHANGED <<store, discovery_vars, mono, requests, answers, heard>>

\* Top of an iteration up to the first recvfrom: sent = now_ms(), the deadline
\* is fixed, the request goes out, the socket waits for what is left.
IA_Send ==
    /\ ia.pc = "loop" /\ ia.idx <= Len(ia.targets)
    /\ mono' = 0
    /\ \E now \in Times :
          ia' = [ia EXCEPT !.pc = "recv", !.sent = now,
                           !.orig_timeout = sock.timeout,
                           !.deadline = mono' + sock.timeout]
    /\ requests' = Append(requests,
          [ip |-> CurrentTarget.ip, idx |-> ia.idx,
           req |-> build_dev_status_request(CurrentTarget.device_id,
                                            CurrentTarget.sku)])
    /\ sock' = [sock EXCEPT !.timeout = ia'.deadline - mono']
    /\ heard' = {}
    /\ UNCHANGED <<store, discovery_vars, answers>>

\* sendto raises OSError: no except clause of interrogate_device_dev_status
\* covers the send, the finally clause restores the timeout, and the
\* exception leaves interrogate_all before record_interrogation and
\* sock.close().
IA_SendRaises ==
    /\ ia.pc = "loop" /\ ia.idx <= Len(ia.targets)
    /\ mono' = 0
    /\ \E now \in Times :
          ia' = [ia EXCEPT !.pc = "raised", !.sent = now,
                           !.orig_timeout = sock.timeout,
                           !.deadline = mono' + sock.timeout]
    /\ UNCHANGED <<store, discovery_vars, sock, requests, answers, heard>>

\* Time passes while recvfrom blocks.
Tick ==
    /\ ia.pc = "recv" /\ mono < ia.deadline
    /\ mono' = mono + 1
    /\ UNCHANGED <<store, discovery_vars, ia, sock, requests, answers, heard>>

\* The datagrams that may reach the control socket while it waits: an
\* answer of a host that was sent a request (the current target, or an earlier
\* one answering late), or a datagram of some other host.  reply_to is the
\* number of the request answered, 0 for a datagram that answers none.
Kind(data) ==
    IF safe_json_loads(data) = None THEN "undecodable"
    ELSE IF IsDict(safe_json_loads(data)) THEN "object" ELSE "nonobject"

Arrivals ==
    {[src |-> requests[k].ip, data |-> data, reply_to |-> k] :
        k \in 1..Len(requests), data \in ReplyPayloads}
    \cup {[src |-> IpOther, data |-> data, reply_to |-> 0] : data \in ReplyPayloads}

\* interrogate_device_dev_status without its finally clause: the socket
\* keeps the timeout the receive loop set last.
FinishTarget_keeping_timeout(res, dg) ==
    /\ \E now \in Times :
          store' = interrogate_all_record(store, CurrentTarget, ia.sent, res,
                                          now, ia.enrich)
    /\ answers' = Append(answers, dg)
    /\ sock' = sock
    /\ ia' = [ia EXCEPT !.pc = "loop", !.idx = @ + 1]
    /\ heard' = {}

\* interrogate_device_dev_status has returned res for the current target
\* (its finally clause restores the socket timeout); interrogate_all records
\* the attempt, enriches and moves to the next target.
FinishTarget(res, dg) ==
    /\ \E now \in Times :
          store' = interrogate_all_record(store, CurrentTarget, ia.sent, res,
                                          now, ia.enrich)
    /\ answers' = Append(answers, dg)
    /\ sock' = [sock EXCEPT !.timeout = ia.orig_timeout]
    /\ ia' = [ia EXCEPT !.pc = "loop", !.idx = @ + 1]
    /\ heard' = {}

\* A receive loop that would give every datagram a fresh timeout: the time
\* waited is counted from the last datagram instead of from the send.
IA_RecvNoise_restarting_wait ==
    /\ ia.pc = "recv" /\ mono < ia.deadline
    /\ \E dg \in Arrivals :
          /\ recv_step(safe_json_loads(dg.data)) = Again
          /\ heard' = heard \cup {Kind(dg.data)}
    /\ mono' = 0
    /\ sock' = [sock EXCEPT !.timeout = ia.orig_timeout]
    /\ UNCHANGED <<store, discovery_vars, ia, requests, answers>>

\* recvfrom returns a datagram and the loop goes round: the socket timeout becomes what is left of the deadline.
IA_RecvNoise ==
    /\ ia.pc = "recv" /\ mono < ia.deadline
    /\ \E dg \in Arrivals :
          /\ recv_step(safe_json_loads(dg.data)) = Again
          /\ heard' = heard \cup {Kind(dg.data)}
    /\ sock' = [sock EXCEPT !.timeout = ia.deadline - mono]
    /\ UNCHANGED <<store, discovery_vars, ia, mono, requests, answers>>

\* recvfrom returns a datagram that ends the loop.
IA_RecvObject ==
    /\ ia.pc = "recv" /\ mono < ia.deadline
    /\ \E dg \in Arrivals :
          /\ recv_step(safe_json_loads(dg.data)) # Again
          /\ FinishTarget(recv_step(safe_json_loads(dg.data)), dg)
    /\ UNCHANGED <<discovery_vars, mono, requests>>

\* Nothing arrived before the deadline: socket.timeout.
IA_RecvTimeout ==
    /\ ia.pc = "recv" /\ mono >= ia.deadline
    /\ FinishTarget(Result(FALSE, None, StrV("timeout")), None)
    /\ UNCHANGED <<discovery_vars, mono, requests>>

\* recvfrom raises OSError while it waits (at the deadline it is
\* socket.timeout that is raised).
IA_RecvError ==
    /\ ia.pc = "recv" /\ mono < ia.deadline
    /\ FinishTarget(Result(FALSE, None, StrV("oserror:recvfrom")), None)
    /\ UNCHANGED <<discovery_vars, mono, requests>>

\* The loop over the targets has ended: sock.close().
IA_Close ==
    /\ ia.pc = "loop" /\ ia.idx > Len(ia.targets)
    /\ ia' = [ia EXCEPT !.pc = "done"]
    /\ sock' = [sock EXCEPT !.state = "closed"]
    /\ UNCHANGED <<store, discovery_vars, mono, requests, answers, heard>>

NextInterrogate ==
    \/ IA_Start
    \/ IA_Send
    \/ IA_SendRaises
    \/ Tick
    \/ IA_RecvNoise
    \/ IA_RecvObject
    \/ IA_RecvTimeout
    \/ IA_RecvError
    \/ IA_Close

SpecInterrogate == InitInterrogate /\ [][NextInterrogate]_vars

\* interrogate_all with time that passes: the monotonic clock read at the top
\* of the receive loop advances while recvfrom blocks, and recvfrom with a
\* finite timeout set returns or raises socket.timeout once that time is over.
InitInterrogateFair ==
    /\ \E h \in {g \in InitHistories : Len(g) = 1} :
          /\ store = Replay(h)
          /\ received = h
          /\ upserts = ReplayCalls(h)
    /\ resolve_mac = FALSE
    /\ InterrogationIdle
    /\ sc = IdleSC
    /\ sr = IdleSR
    /\ cc = IdleCC
    /\ fc = NoCall
    /\ db = IdleDB
    /\ rp = IdleRP

SpecInterrogateFair ==
    /\ InitInterrogateFair
    /\ [][NextInterrogate]_vars
    /\ WF_vars(Tick)
    /\ WF_vars(IA_RecvTimeout)

\* ------------------------------------------- send_control_command, stepwise

ControlPayloads ==
    {build_turn_command(TRUE), build_turn_command(FALSE),
     build_brightness_command(50)}

\* what may come back to the socket of a control exchange
ControlReplies ==
    {JsonBytes(Envelope(StrV("turn"), Obj([value |-> Num("1")]))),
     DevStatusReply, JsonBytes(Obj(EmptyMap)), JsonBytes(ArrV), JsonBytes(NumV),
     NotJson("NOTIFY * HTTP/1.1"), BadUtf8("ff fe")}

InitControl ==
    /\ store = EmptyStore
    /\ resolve_mac = FALSE
    /\ received = <<>>
    /\ upserts = <<>>
    /\ InterrogationIdle
    /\ sc = IdleSC
    /\ sr = IdleSR
    /\ cc = IdleCC
    /\ fc = NoCall
    /\ db = IdleDB
    /\ rp = IdleRP

non_control_vars ==
    <<store, resolve_mac, received, upserts, interrogation_vars, sr, cc, fc, db, rp>>

\* send_control_command is called: the payload is serialised, the socket made.
SC_Call ==
    /\ sc.pc \in {"idle", "returned", "raised"}
    /\ sc.calls < MaxCommands
    /\ \E ip \in {IpA, IpB}, payload \in ControlPayloads, wait \in BOOLEAN :
          sc' = [IdleSC EXCEPT !.pc = "send", !.calls = sc.calls + 1, !.ip = ip,
                               !.payload = payload, !.wait_response = wait,
                               !.sock = "open"]
    /\ UNCHANGED non_control_vars

\* make_control_socket raises (the bind address is not usable): the exception
\* leaves send_control_command, nothing is sent and nothing is returned.
SC_CallRaises ==
    /\ sc.pc \in {"idle", "returned", "raised"}
    /\ sc.calls < MaxCommands
    /\ \E ip \in {IpA, IpB}, payload \in ControlPayloads, wait \in BOOLEAN :
          sc' = [IdleSC EXCEPT !.pc = "raised", !.calls = sc.calls + 1, !.ip = ip,
                               !.payload = payload, !.wait_response = wait]
    /\ UNCHANGED non_control_vars

\* sendto succeeds; without wait_response the call returns at once.
SC_Send ==
    /\ sc.pc = "send"
    /\ sc' = IF sc.wait_response
             THEN [sc EXCEPT !.pc = "recv", !.sends = @ + 1, !.tx = "ok"]
             ELSE [sc EXCEPT !.pc = "returned", !.sends = @ + 1, !.tx = "ok",
                             !.sock = "closed",
                             !.result = send_control_command(FALSE, "ok", sc.rx)]
    /\ UNCHANGED non_control_vars

\* sendto raises: OSError, or another exception.
SC_SendRaises ==
    /\ sc.pc = "send"
    /\ \E tx \in {"oserror", "error"} :
          sc' = [sc EXCEPT !.pc = "returned", !.tx = tx, !.sock = "closed",
                           !.result = send_control_command(sc.wait_response,
                                                           tx, sc.rx)]
    /\ UNCHANGED non_control_vars

\* The one recvfrom ends: with a datagram, with socket.timeout, or with
\* another OSError.
SC_Recv ==
    /\ sc.pc = "recv"
    /\ \E rx \in {RxTimeout, RxError} \cup {RxData(d) : d \in ControlReplies} :
          sc' = [sc EXCEPT !.pc = "returned", !.recvs = @ + 1, !.rx = rx,
                           !.sock = "closed",
                           !.result = send_control_command(TRUE, sc.tx, rx)]
    /\ UNCHANGED non_control_vars

NextControl == SC_Call \/ SC_CallRaises \/ SC_Send \/ SC_SendRaises \/ SC_Recv

SpecControl == InitControl /\ [][NextControl]_vars

\* ------------------------------------- interrogate_all, one target per run

\* Replies that end the wait of a run: devStatus envelopes naming different
\* status fields, an unexpected envelope, a devStatus envelope without data.
StatusReplyB ==
    JsonBytes(Envelope(StrV("devStatus"),
                       Obj([brightness |-> Num("30"),
                            color |-> Obj([r |-> Num("255"), g |-> Num("0"),
                                           b |-> Num("0")])])))
StatusReplyNoData == JsonBytes(Envelope(StrV("devStatus"), ArrV))
EnrichReplies ==
    {DevStatusReply, StatusReplyB, UnexpectedReply, StatusReplyNoData}

\* The registry two scan responses leave behind: ABCD1234 at 192.168.1.50 and
\* EF567890 at 192.168.1.51.
EnrichHistory ==
    <<Heard(ScanOf("ABCD1234", FieldsFull1), 1), Heard(ScanOf("EF567890", FieldsFull2), 2)>>

InitEnrich ==
    /\ store = Replay(EnrichHistory)
    /\ received = EnrichHistory
    /\ upserts = ReplayCalls(EnrichHistory)
    /\ resolve_mac = FALSE
    /\ InterrogationIdle
    /\ sc = IdleSC
    /\ sr = IdleSR
    /\ cc = IdleCC
    /\ fc = NoCall
    /\ db = IdleDB
    /\ rp = IdleRP

\* One whole interrogate_all run with a single explicit target ip drawn from
\* ips: the target
\* is resolved against the registry, the request sent, and the exchange ends
\* with a JSON object of the target or with the timeout; the attempt is
\* recorded, the registry enriched, the socket closed.
InterrogateRun(ips, enrichs, replies, nows) ==
    /\ ia.pc \in {"idle", "done"}
    /\ Len(requests) < MaxRuns
    /\ \E ip \in ips, enrich \in enrichs, now \in nows,
          lst \in list_device_targets(store),
          reply \in replies :
          LET targets == resolve_targets(lst, None, List(<<ip>>))
              target == targets[1]
              k == Len(requests) + 1
              dg == IF reply = None THEN None
                    ELSE [src |-> ip, data |-> reply, reply_to |-> k]
              res == IF reply = None THEN Result(FALSE, None, StrV("timeout"))
                     ELSE recv_step(safe_json_loads(reply))
          IN  /\ requests' = Append(requests,
                    [ip |-> ip, idx |-> 1,
                     req |-> build_dev_status_request(target.device_id, target.sku)])
              /\ answers' = Append(answers, dg)
              /\ store' = interrogate_all_record(store, target, now, res, now, enrich)
              /\ ia' = [ia EXCEPT !.pc = "done", !.target_ips = List(<<ip>>),
                                  !.targets = targets, !.idx = 2,
                                  !.enrich = enrich, !.sent = now,
                                  !.orig_timeout = TimeoutTicks,
                                  !.deadline = TimeoutTicks]
    /\ sock' = [state |-> "closed", timeout |-> TimeoutTicks]
    /\ heard' = {}
    /\ UNCHANGED <<discovery_vars, mono>>

InterrogateOne ==
    InterrogateRun({IpA, IpB, IpUnknown}, BOOLEAN, {None} \cup EnrichReplies, Times)

NextEnrich == InterrogateOne

SpecEnrich == InitEnrich /\ [][NextEnrich]_vars

\* ------------------------- the registry over listener and interrogate runs

\* Scan responses of two devices, one of them partial, and a scan response
\* that names no device.
RegistryPayloads ==
    {ScanOf("ABCD1234", FieldsFull1), ScanOf("ABCD1234", [sku |-> StrV("H6160")]),
     ScanOf("EF567890", FieldsFull2),
     JsonBytes(Envelope(StrV("scan"), Obj(FieldsIpSku)))}

InitRegistry ==
    /\ store = EmptyStore
    /\ resolve_mac = FALSE
    /\ received = <<>>
    /\ upserts = <<>>
    /\ InterrogationIdle
    /\ sc = IdleSC
    /\ sr = IdleSR
    /\ cc = IdleCC
    /\ fc = NoCall
    /\ db = IdleDB
    /\ rp = IdleRP

\* A listener run handles a datagram.
RegistryScan ==
    /\ Len(received) + Len(requests) < MaxOps
    /\ DatagramFrom(RegistryPayloads, {None})

\* An interrogate run, with enrichment, of one explicit ip, which answers with
\* its status or not at all.
RegistryInterrogate ==
    /\ Len(received) + Len(requests) < MaxOps
    /\ InterrogateRun({IpA, IpUnknown}, {TRUE}, {None, DevStatusReply}, {1})

NextRegistry == RegistryScan \/ RegistryInterrogate

SpecRegistry == InitRegistry /\ [][NextRegistry]_vars

\* ------------------------------------------------------- run_scan, stepwise

ScanRepeats == (0 - 1)..MaxRepeat

\* What may reach the listener socket during a scan run.
ScanReplies == {ScanOf("ABCD1234", FieldsIpSku), NotJson("M-SEARCH * HTTP/1.1")}

InitScan ==
    /\ store = EmptyStore
    /\ resolve_mac = FALSE
    /\ received = <<>>
    /\ upserts = <<>>
    /\ InterrogationIdle
    /\ sc = IdleSC
    /\ sr = IdleSR
    /\ cc = IdleCC
    /\ fc = NoCall
    /\ db = IdleDB
    /\ rp = IdleRP

non_scan_vars ==
    <<store, resolve_mac, received, upserts, interrogation_vars, sc, cc, fc, db, rp>>

\* run_scan is called with scan_repeat = n and enters run_listener.
RS_Start ==
    /\ sr.lpc = "idle"
    /\ \E n \in ScanRepeats : sr' = [sr EXCEPT !.lpc = "socket", !.repeat = n]
    /\ UNCHANGED non_scan_vars

\* make_listener_socket: the socket is bound to the response port and joined
\* to the multicast group.
RL_Socket ==
    /\ sr.lpc = "socket"
    /\ sr' = [sr EXCEPT !.lpc = "endpoint", !.bound = TRUE, !.joined = TRUE]
    /\ UNCHANGED non_scan_vars

\* bind or the group join raises OSError: the exception leaves run_scan.
RL_SocketRaises ==
    /\ sr.lpc = "socket"
    /\ sr' = [sr EXCEPT !.lpc = "raised"]
    /\ UNCHANGED non_scan_vars

\* create_datagram_endpoint registers the socket with the event loop;
\* run_listener returns.
RL_Endpoint ==
    /\ sr.lpc = "endpoint"
    /\ sr' = [sr EXCEPT !.lpc = "done", !.registered = TRUE]
    /\ UNCHANGED non_scan_vars

\* send_scan_requests started while run_listener may still be under way.
SS_Open_beside_listener ==
    /\ sr.lpc \in {"socket", "endpoint", "done"} /\ sr.spc = "idle"
    /\ sr' = [sr EXCEPT !.spc = "loop", !.i = 0]
    /\ UNCHANGED non_scan_vars

\* run_listener has returned: send_scan_requests makes its sender socket.
SS_Open ==
    /\ sr.lpc = "done" /\ sr.spc = "idle"
    /\ sr' = [sr EXCEPT !.spc = "loop", !.i = 0]
    /\ UNCHANGED non_scan_vars

\* One iteration of the loop up to its await: sendto, then the test for the
\* sleep.
SS_Send ==
    /\ sr.spc = "loop" /\ sr.i < send_count(sr.repeat)
    /\ sr' = [sr EXCEPT
                 !.sent = Append(@, [payload |-> ScanRequest, dest |-> ScanDest]),
                 !.slept_last = FALSE,
                 !.spc = IF sleeps_after(sr.i, sr.repeat) THEN "sleep" ELSE "loop",
                 !.i = IF sleeps_after(sr.i, sr.repeat) THEN @ ELSE @ + 1]
    /\ UNCHANGED non_scan_vars

\* sendto raises OSError: the finally clause closes the socket, the exception
\* leaves run_scan.
SS_SendRaises ==
    /\ sr.spc = "loop" /\ sr.i < send_count(sr.repeat)
    /\ sr' = [sr EXCEPT !.spc = "raised"]
    /\ UNCHANGED non_scan_vars

\* asyncio.sleep(interval_s) ends.
SS_Sleep ==
    /\ sr.spc = "sleep"
    /\ sr' = [sr EXCEPT !.spc = "loop", !.i = @ + 1, !.sleeps = @ + 1,
                        !.slept_last = TRUE]
    /\ UNCHANGED non_scan_vars

\* The loop has ended: sock.close(), send_scan_requests and run_scan return.
SS_Close ==
    /\ sr.spc = "loop" /\ sr.i >= send_count(sr.repeat)
    /\ sr' = [sr EXCEPT !.spc = "closed"]
    /\ UNCHANGED non_scan_vars

\* The registered listener is handed a datagram.
ScanDatagram ==
    /\ sr.registered
    /\ DatagramFrom(ScanReplies, {None})

NextScan ==
    \/ RS_Start
    \/ RL_Socket
    \/ RL_SocketRaises
    \/ RL_Endpoint
    \/ SS_Open
    \/ SS_Send
    \/ SS_SendRaises
    \/ SS_Sleep
    \/ SS_Close
    \/ ScanDatagram

SpecScan == InitScan /\ [][NextScan]_vars

\* -------------------------------------- the functions of control.py, called

\* The names the handler and the parser spell out.
Red == Str(<<"r", "e", "d">>)
Green == Str(<<"g", "r", "e", "e", "n">>)
Blue == Str(<<"b", "l", "u", "e">>)
White == Str(<<"w", "h", "i", "t", "e">>)
WarmWhite == Str(<<"w", "a", "r", "m", "w", "h", "i", "t", "e">>)
Bogus == Str(<<"b", "o", "g", "u", "s">>)
Orange == Str(<<"#", "f", "f", "8", "8", "0", "0">>)
CmdColor == Str(<<"c", "o", "l", "o", "r">>)
CmdColorWC == Str(<<"c", "o", "l", "o", "r", "w", "c">>)
CmdSetColor == Str(<<"s", "e", "t", "C", "o", "l", "o", "r">>)
CmdSetColorWC == Str(<<"s", "e", "t", "C", "o", "l", "o", "r", "W", "C">>)

\* parsed_colors, when every name parses
parsed_colors(colors) ==
    [i \in 1..Len(colors) |-> [name |-> colors[i], value |-> parse_color(colors[i])]]

RECURSIVE Flatten(_)
Flatten(ss) == IF ss = <<>> THEN <<>> ELSE Head(ss) \o Flatten(Tail(ss))

ProbeCommands == <<CmdColor, CmdColorWC, CmdSetColor, CmdSetColorWC>>
ProbeScales == <<255, 100>>

\* A candidate list that would put the no-Kelvin case after the Kelvin values.
kelvin_candidates_no_kelvin_last(cmd, kelvin_values, include_no_kelvin) ==
    IF include_no_kelvin /\ Text(cmd.chars) \in {"color", "setColor"}
    THEN kelvin_values \o <<None>> ELSE kelvin_values

kelvin_candidates(cmd, kelvin_values, include_no_kelvin) ==
    IF include_no_kelvin /\ Text(cmd.chars) \in {"color", "setColor"}
    THEN <<None>> \o kelvin_values ELSE kelvin_values

\* The combinations the loops of iter_color_probe_payloads go through, in
\* their order.
probe_combinations(colors, kelvin_values, include_no_kelvin) ==
    Flatten([i \in 1..Len(colors) |->
      Flatten([j \in 1..Len(ProbeCommands) |->
        Flatten([k \in 1..Len(ProbeScales) |->
          LET kc == kelvin_candidates(ProbeCommands[j], kelvin_values,
                                      include_no_kelvin)
          IN  [m \in 1..Len(kc) |->
                 [cmd |-> ProbeCommands[j], scale |-> ProbeScales[k],
                  kelvin |-> kc[m], color_name |-> colors[i].name,
                  color |-> colors[i].value]]])])])

\* The innermost loop body of iter_color_probe_payloads on one combination:
\* the payload yielded, Continue when the combination is passed over, the
\* ValueError of build_color_payload that makes the loop pass it over.
Continue == [t |-> "continue"]
probe_payload(c) ==
    IF Text(c.cmd.chars) \in {"colorwc", "setColorWC"} /\ c.kelvin = None
    THEN Continue
    ELSE build_color_payload(c.cmd, c.color, c.kelvin, c.scale)

\* What the generator yields, in order: the combinations its loop body does
\* not pass over, each with the payload built for it.
iter_color_probe_payloads(colors, kelvin_values, include_no_kelvin) ==
    LET kept == SelectSeq(probe_combinations(colors, kelvin_values, include_no_kelvin),
                          LAMBDA c : IsDict(probe_payload(c)))
    IN  [n \in 1..Len(kept) |->
            [cmd |-> kept[n].cmd, scale |-> kept[n].scale, kelvin |-> kept[n].kelvin,
             color_name |-> kept[n].color_name, payload |-> probe_payload(kept[n])]]

\* Arguments of parse_color: the names of COMMON_COLORS, names in other
\* spellings, hex literals, and strings that are neither.
ColorStrings ==
    {Str(c) : c \in
        {<<"r", "e", "d">>,
         <<"g", "r", "e", "e", "n">>,
         <<"b", "l", "u", "e">>,
         <<"w", "h", "i", "t", "e">>,
         <<"w", "a", "r", "m", "w", "h", "i", "t", "e">>,
         <<"y", "e", "l", "l", "o", "w">>,
         <<"o", "r", "a", "n", "g", "e">>,
         <<"p", "u", "r", "p", "l", "e">>,
         <<"p", "i", "n", "k">>,
         <<"c", "y", "a", "n">>,
         <<"m", "a", "g", "e", "n", "t", "a">>,
         <<"w", "a", "r", "m", "-", "w", "h", "i", "t", "e">>,
         <<"R", "E", "D">>,
         <<"W", "a", "r", "m", "-", "W", "h", "i", "t", "e">>,
         <<"W", "a", "r", "m", "W", "h", "i", "t", "e">>,
         <<" ", "p", "i", "n", "k", " ">>,
         <<"#", "f", "f", "8", "8", "0", "0">>,
         <<"F", "F", "8", "8", "0", "0">>,
         <<"#", "F", "f", "A", "a", "8", "8">>,
         <<"f", "f", "8", "8", "0">>,
         <<"f", "f", "8", "8", "0", "0", "0">>,
         <<"#", "g", "g", "0", "0", "0", "0">>,
         <<>>,
         <<"#", "#", "f", "f", "8", "8", "0", "0">>,
         <<"t", "e", "a", "l">>,
         <<"f", "f", "8", "8", "0", "0", "#">>}}

\* Arguments of _scale_color and of the builders.
ScaleColors ==
    {RGB(c, 255 - c, 128) : c \in 0..255} \cup {RGB(255, 128, 0), RGB(255, 165, 0)}
Scales == {0, 50, 100, 255}
PayloadCommands ==
    {Str(c) : c \in
        {<<"c", "o", "l", "o", "r">>,
         <<"c", "o", "l", "o", "r", "w", "c">>,
         <<"s", "e", "t", "C", "o", "l", "o", "r">>,
         <<"s", "e", "t", "C", "o", "l", "o", "r", "W", "C">>,
         <<" ", "c", "o", "l", "o", "r">>,
         <<"c", "o", "l", "o", "r", "w", "c", "\n">>,
         <<"s", "e", "t", "c", "o", "l", "o", "r">>,
         <<"c", "o", "l", "o", "r", "W", "C">>,
         <<"t", "u", "r", "n">>,
         <<>>}}
PayloadColors == {None, RGB(255, 128, 0), RGB(255, 165, 0)}
PayloadKelvins == {None, IntV(0 - 1), IntV(0), IntV(1), IntV(2700)}
PayloadScales == {50, 100, 255}
BrightnessValues == {0 - 1, 0, 50, 100, 101}
KelvinValues == {0 - 1, 0, 2700}

\* Arguments of iter_color_probe_payloads: the color lists cmd_control hands
\* over (names with the values parse_color gave), with a name given twice,
\* and Kelvin lists in and out of order, with values the builder refuses.
ProbeColorLists ==
    {<<>>, parsed_colors(<<Red>>), parsed_colors(<<Red, Green, Blue>>),
     parsed_colors(<<Orange, Red>>), parsed_colors(<<Red, Red>>)}
ProbeKelvinLists ==
    {<<>>, <<IntV(3000)>>, <<IntV(3000), IntV(4000), IntV(6500)>>,
     <<IntV(6500), IntV(2700)>>, <<IntV(0)>>, <<IntV(0), IntV(3000)>>,
     <<IntV(3000), IntV(0 - 1), IntV(4000)>>, <<IntV(3000), IntV(3000)>>}

InitBuilders ==
    /\ store = EmptyStore
    /\ resolve_mac = FALSE
    /\ received = <<>>
    /\ upserts = <<>>
    /\ InterrogationIdle
    /\ sc = IdleSC
    /\ sr = IdleSR
    /\ cc = IdleCC
    /\ fc = NoCall
    /\ db = IdleDB
    /\ rp = IdleRP

non_call_vars ==
    <<store, resolve_mac, received, upserts, interrogation_vars, sc, sr, cc, db, rp>>

\* One direct call per behaviour: the functions keep no state between calls.
Call_parse_color ==
    /\ fc = NoCall
    /\ \E value \in ColorStrings :
          fc' = [f |-> "parse_color", args |-> [value |-> value],
                 out |-> parse_color(value)]
    /\ UNCHANGED non_call_vars

Call_scale_color ==
    /\ fc = NoCall
    /\ \E color \in ScaleColors, scale_max \in Scales :
          fc' = [f |-> "_scale_color",
                 args |-> [color |-> color, scale_max |-> scale_max],
                 out |-> _scale_color(color, scale_max)]
    /\ UNCHANGED non_call_vars

Call_build_color_payload ==
    /\ fc = NoCall
    /\ \E command \in PayloadCommands, color \in PayloadColors,
          kelvin \in PayloadKelvins, scale_max \in PayloadScales :
          fc' = [f |-> "build_color_payload",
                 args |-> [command |-> command, color |-> color,
                           kelvin |-> kelvin, scale_max |-> scale_max],
                 out |-> build_color_payload(command, color, kelvin, scale_max)]
    /\ UNCHANGED non_call_vars

Call_build_brightness_command ==
    /\ fc = NoCall
    /\ \E value \in BrightnessValues :
          fc' = [f |-> "build_brightness_command", args |-> [value |-> value],
                 out |-> build_brightness_command(value)]
    /\ UNCHANGED non_call_vars

Call_build_color_temp_command ==
    /\ fc = NoCall
    /\ \E kelvin \in KelvinValues :
          fc' = [f |-> "build_color_temp_command", args |-> [kelvin |-> kelvin],
                 out |-> build_color_temp_command(kelvin)]
    /\ UNCHANGED non_call_vars

Call_build_colorwc_command ==
    /\ fc = NoCall
    /\ \E kelvin \in KelvinValues, color \in PayloadColors :
          fc' = [f |-> "build_colorwc_command",
                 args |-> [kelvin |-> kelvin, color |-> color],
                 out |-> build_colorwc_command(kelvin, color)]
    /\ UNCHANGED non_call_vars

Call_build_color_command ==
    /\ fc = NoCall
    /\ \E color \in PayloadColors \ {None} :
          fc' = [f |-> "build_color_command", args |-> [color |-> color],
                 out |-> build_color_command(color.v[1], color.v[2], color.v[3])]
    /\ UNCHANGED non_call_vars

Call_iter_color_probe_payloads ==
    /\ fc = NoCall
    /\ \E colors \in ProbeColorLists, kelvin_values \in ProbeKelvinLists,
          include_no_kelvin \in BOOLEAN :
          fc' = [f |-> "iter_color_probe_payloads",
                 args |-> [colors |-> colors, kelvin_values |-> kelvin_values,
                           include_no_kelvin |-> include_no_kelvin],
                 out |-> iter_color_probe_payloads(colors, kelvin_values,
                                                   include_no_kelvin)]
    /\ UNCHANGED non_call_vars

NextBuilders ==
    \/ Call_parse_color
    \/ Call_scale_color
    \/ Call_build_color_payload
    \/ Call_build_brightness_command
    \/ Call_build_color_temp_command
    \/ Call_build_colorwc_command
    \/ Call_build_color_command
    \/ Call_iter_color_probe_payloads

SpecBuilders == InitBuilders /\ [][NextBuilders]_vars

\* ------------------------------------------------------ cmd_control, stepwise

get_device_ip(st, device_id) ==
    IF device_id.v \in DOMAIN st.devices THEN st.devices[device_id.v].ip ELSE None

\* The ip cmd_control sends to, or the ValueError raised.
_resolve_target_ip(st, ip, device_id) ==
    IF Truthy(ip) THEN ip
    ELSE IF ~Truthy(device_id) THEN ValueError("must supply --ip or --device-id")
    ELSE LET resolved == get_device_ip(st, device_id) IN
         IF ~Truthy(resolved) THEN ValueError("no IP found for device_id")
         ELSE resolved

\* A brightness check that lets every value through.
brightness_in_range_unchecked(value) == TRUE

\* 0 <= args.value <= 100
brightness_in_range(value) == 0 <= value /\ value <= 100

\* The try block of cmd_control for the actions that send one command: the
\* payload built, or the ValueError raised.
control_payload(args) ==
    CASE args.action = "on" -> build_turn_command(TRUE)
      [] args.action = "off" -> build_turn_command(FALSE)
      [] args.action = "color" ->
            LET c == parse_color(args.color) IN
            IF Raised(c) THEN c
            ELSE build_color_payload(args.color_cmd, c, args.kelvin, args.color_scale)
      [] args.action = "brightness" ->
            IF ~brightness_in_range(args.value.n)
            THEN ValueError("brightness must be between 0 and 100")
            ELSE build_brightness_command(args.value.n)
      [] args.action = "color-temp" ->
            IF args.kelvin.n <= 0 THEN ValueError("color temperature must be positive")
            ELSE build_color_temp_command(args.kelvin.n)
      [] args.action = "colorwc" ->
            LET given == IF args.color # None /\ args.color.chars # <<>>
                         THEN parse_color(args.color) ELSE None
                default_color == IF args.kelvin # None /\ args.kelvin.n < 4000
                                 THEN WarmWhite ELSE White
                color == IF given = None THEN parse_color(default_color) ELSE given
            IN  IF Raised(color) THEN color
                ELSE build_color_payload(args.color_cmd, color, args.kelvin,
                                         args.color_scale)
      [] OTHER -> ValueError("unknown control action")

\* args.color or ["red", "green", "blue"]; args.kelvin or [3000, 4000, 6500]
probe_colors(args) ==
    IF args.color # None THEN args.color.items ELSE <<Red, Green, Blue>>
probe_kelvins(args) ==
    IF args.kelvin # None THEN args.kelvin.items
    ELSE <<IntV(3000), IntV(4000), IntV(6500)>>

\* ---------------------------------------------------- inputs of cmd_control

\* The registry cmd_control looks a device id up in: ABCD1234 at
\* 192.168.1.50, EF567890 without an address.
ControlHistory ==
    <<Heard(ScanOf("ABCD1234", FieldsIpSku), 1),
      Heard(ScanOf("EF567890", [sku |-> StrV("H6160")]), 2)>>

BaseArgs ==
    [action |-> "on", ip |-> IpA, device_id |-> None, no_wait |-> FALSE,
     color |-> None, color_cmd |-> None, color_scale |-> None, kelvin |-> None,
     value |-> None, require_kelvin |-> FALSE, stop_on_success |-> FALSE]

TargetArgs ==
    {[ip |-> IpA, device_id |-> None], [ip |-> None, device_id |-> StrV("ABCD1234")],
     [ip |-> None, device_id |-> StrV("EF567890")],
     [ip |-> None, device_id |-> StrV("ZZZZ0000")], [ip |-> None, device_id |-> None]}

\* --color-cmd has the choices color, colorwc, setColor; --color-scale 100, 255
CliColorCmds == {CmdColor, CmdColorWC, CmdSetColor}
CliColorScales == {100, 255}
CliColors == {Red, Orange, Bogus}

ProbeLists ==
    {[color |-> None, kelvin |-> List(<<IntV(3000)>>)],
     [color |-> List(<<Red>>), kelvin |-> None],
     [color |-> List(<<Red>>), kelvin |-> List(<<IntV(0)>>)],
     [color |-> List(<<Red>>), kelvin |-> List(<<IntV(0), IntV(3000)>>)],
     [color |-> List(<<Bogus>>), kelvin |-> None],
     [color |-> List(<<Red, Bogus>>), kelvin |-> List(<<IntV(3000)>>)]}

ControlArgs ==
    {[BaseArgs EXCEPT !.action = a, !.ip = t.ip, !.device_id = t.device_id,
                      !.no_wait = w] :
        a \in {"on", "off"}, t \in TargetArgs, w \in BOOLEAN}
    \cup {[BaseArgs EXCEPT !.action = "brightness", !.value = IntV(v)] :
            v \in BrightnessValues}
    \cup {[BaseArgs EXCEPT !.action = "color-temp", !.kelvin = IntV(k)] :
            k \in KelvinValues}
    \cup {[BaseArgs EXCEPT !.action = "color", !.color = c, !.color_cmd = m,
                           !.color_scale = sm, !.kelvin = k] :
            c \in CliColors, m \in CliColorCmds, sm \in CliColorScales,
            k \in {None, IntV(0), IntV(3200)}}
    \cup {[BaseArgs EXCEPT !.action = "colorwc", !.color = c, !.color_cmd = m,
                           !.color_scale = sm, !.kelvin = k] :
            c \in {None} \cup CliColors, m \in CliColorCmds, sm \in CliColorScales,
            k \in {None, IntV(0), IntV(2700), IntV(6500)}}
    \cup {[BaseArgs EXCEPT !.action = "color-probe", !.color = p.color,
                           !.kelvin = p.kelvin, !.require_kelvin = r,
                           !.stop_on_success = st] :
            p \in ProbeLists, r \in BOOLEAN, st \in BOOLEAN}

\* what the one receive of a command's exchange may yield
CliReceives ==
    {RxTimeout, RxData(JsonBytes(Envelope(StrV("turn"), Obj([value |-> Num("1")])))),
     RxData(NotJson("NOTIFY * HTTP/1.1"))}

InitCmdControl ==
    /\ store = Replay(ControlHistory)
    /\ received = ControlHistory
    /\ upserts = ReplayCalls(ControlHistory)
    /\ resolve_mac = FALSE
    /\ InterrogationIdle
    /\ sc = IdleSC
    /\ sr = IdleSR
    /\ cc = IdleCC
    /\ fc = NoCall
    /\ db = IdleDB
    /\ rp = IdleRP

non_cli_vars ==
    <<store, resolve_mac, received, upserts, interrogation_vars, sc, sr, fc, db, rp>>

\* cmd_control is called and runs up to its first use of the network: the
\* target is resolved, the payload built or, for color-probe, the colors
\* parsed.  A ValueError of _resolve_target_ip is raised outside the inner try
\* and leaves cmd_control; one of the try block is printed and 2 returned.
\* Each invocation is a process of its own: a behaviour holds one.
CC_Invoke ==
    /\ cc.pc = "idle"
    /\ \E args \in ControlArgs :
          LET ip == _resolve_target_ip(store, args.ip, args.device_id)
              this == [IdleCC EXCEPT !.args = args]
              refused == [this EXCEPT !.pc = "returned", !.ip = ip, !.invalid = TRUE,
                                      !.reported = TRUE, !.rc = IntV(2)]
          IN  cc' =
                IF Raised(ip) THEN [this EXCEPT !.pc = "raised"]
                ELSE IF args.action = "color-probe"
                THEN IF \E i \in 1..Len(probe_colors(args)) :
                            Raised(parse_color(probe_colors(args)[i]))
                     THEN refused
                     ELSE [this EXCEPT
                             !.pc = "probe", !.ip = ip,
                             !.queue = probe_combinations(
                                          parsed_colors(probe_colors(args)),
                                          probe_kelvins(args),
                                          ~args.require_kelvin)]
                ELSE IF Raised(control_payload(args)) THEN refused
                ELSE [this EXCEPT !.pc = "send", !.ip = ip, !.built = 1,
                                  !.payload = control_payload(args)]
    /\ UNCHANGED non_cli_vars

\* send_control_command runs for the payload built and cmd_control returns
\* 1 when the command was not delivered, 0 otherwise.
CC_Exchange ==
    /\ cc.pc = "send"
    /\ \E tx \in {"ok", "oserror"}, rx \in CliReceives :
          LET res == send_control_command(~cc.args.no_wait, tx, rx) IN
          cc' = [cc EXCEPT !.pc = "returned", !.socks = @ + 1,
                           !.sends = IF tx = "ok" THEN @ + 1 ELSE @,
                           !.rc = IF ~res.ok THEN IntV(1) ELSE IntV(0)]
    /\ UNCHANGED non_cli_vars

\* make_control_socket raises in send_control_command: nothing catches it,
\* the exception leaves cmd_control.
CC_SocketRaises ==
    /\ \/ cc.pc = "send"
       \/ /\ cc.pc = "probe" /\ cc.queue # <<>>
          /\ IsDict(probe_payload(Head(cc.queue)))
    /\ cc' = [cc EXCEPT !.pc = "raised",
                        !.built = IF cc.pc = "probe" THEN @ + 1 ELSE @]
    /\ UNCHANGED non_cli_vars

\* The generator passes a combination over: one for which a variant that
\* needs a Kelvin has none, or one build_color_payload refuses.
CC_ProbeSkip ==
    /\ cc.pc = "probe" /\ cc.queue # <<>>
    /\ ~IsDict(probe_payload(Head(cc.queue)))
    /\ cc' = [cc EXCEPT !.queue = Tail(@),
                        !.rejected = IF Raised(probe_payload(Head(cc.queue)))
                                     THEN @ + 1 ELSE @]
    /\ UNCHANGED non_cli_vars

\* The generator yields a payload and run_color_probe sends it, waiting for a
\* response; with stop_on_success a response ends the probe.
CC_ProbeSend ==
    /\ cc.pc = "probe" /\ cc.queue # <<>>
    /\ IsDict(probe_payload(Head(cc.queue)))
    /\ \E tx \in {"ok", "oserror"}, rx \in CliReceives :
          LET res == send_control_command(TRUE, tx, rx)
              stop == cc.args.stop_on_success /\ res.ok /\ res.resp # None
          IN  cc' = [cc EXCEPT
                       !.payload = probe_payload(Head(cc.queue)),
                       !.built = @ + 1, !.socks = @ + 1,
                       !.sends = IF tx = "ok" THEN @ + 1 ELSE @,
                       !.queue = IF stop THEN <<>> ELSE Tail(@),
                       !.pc = IF stop THEN "returned" ELSE "probe",
                       !.rc = IF stop THEN IntV(0) ELSE None]
    /\ UNCHANGED non_cli_vars

\* The generator is exhausted: 1 when there is no result, 0 after the table.
CC_ProbeEnd ==
    /\ cc.pc = "probe" /\ cc.queue = <<>>
    /\ cc' = [cc EXCEPT !.pc = "returned",
                        !.rc = IF cc.socks = 0 THEN IntV(1) ELSE IntV(0)]
    /\ UNCHANGED non_cli_vars

NextCmdControl ==
    \/ CC_Invoke
    \/ CC_Exchange
    \/ CC_SocketRaises
    \/ CC_ProbeSkip
    \/ CC_ProbeSend
    \/ CC_ProbeEnd

SpecCmdControl == InitCmdControl /\ [][NextCmdControl]_vars

\* --------------------------------------------------- run_color_probe, stepwise

\* A loop that would sleep before every attempt, the first included.
sleeps_before_always(first) == TRUE

\* if not first: time.sleep(1.0)
sleeps_before(first) == ~first

\* A check that would end the probe on every delivered attempt, also one
\* that got no reply.
stops_probe_when_delivered(stop_on_success, res) == stop_on_success /\ res.ok

\* if stop_on_success and result.ok and result.resp is not None: break
stops_probe(stop_on_success, res) == stop_on_success /\ res.ok /\ res.resp # None

ColorProbeResult(c, res) ==
    [command |-> c.cmd, scale_max |-> c.scale, kelvin |-> c.kelvin,
     color_name |-> c.color_name, payload |-> c.payload,
     ok |-> res.ok, resp |-> res.resp, error |-> res.err]

\* What the network does to one attempt: whether sendto succeeds and what the
\* one recvfrom yields -- a reply, silence, bytes that are no JSON, JSON that
\* is no object, a socket error.
ProbeExchanges ==
    {[tx |-> "ok", rx |-> RxData(JsonBytes(Envelope(StrV("colorwc"), Obj(EmptyMap))))],
     [tx |-> "ok", rx |-> RxTimeout],
     [tx |-> "ok", rx |-> RxData(NotJson("NOTIFY * HTTP/1.1"))],
     [tx |-> "ok", rx |-> RxData(JsonBytes(ArrV))],
     [tx |-> "ok", rx |-> RxError],
     [tx |-> "oserror", rx |-> RxTimeout]}

\* The network over a probe: every attempt meets usual, the attempt number
\* `at` meets once.
ProbeNetworks ==
    {[usual |-> u, at |-> k, once |-> o] :
        u \in ProbeExchanges, k \in 1..MaxScripted, o \in ProbeExchanges}

exchange_of(network, n) == IF n = network.at THEN network.once ELSE network.usual

ProbeCalls ==
    {[colors |-> c, kelvin_values |-> k, include_no_kelvin |-> inc,
      stop_on_success |-> st] :
        c \in {parsed_colors(<<Red>>), parsed_colors(<<Orange, Red>>)},
        k \in {<<IntV(3000)>>, <<IntV(0)>>, <<IntV(0), IntV(3000)>>},
        inc \in BOOLEAN, st \in BOOLEAN}

InitProbe ==
    /\ store = EmptyStore
    /\ resolve_mac = FALSE
    /\ received = <<>>
    /\ upserts = <<>>
    /\ InterrogationIdle
    /\ sc = IdleSC
    /\ sr = IdleSR
    /\ cc = IdleCC
    /\ fc = NoCall
    /\ db = IdleDB
    /\ rp = IdleRP

non_probe_vars ==
    <<store, resolve_mac, received, upserts, interrogation_vars, sc, sr, cc, fc, db>>

\* run_color_probe is called: results = [], first = True, the generator made.
RP_Call ==
    /\ rp.pc = "idle"
    /\ \E args \in ProbeCalls, network \in ProbeNetworks :
          LET gen == iter_color_probe_payloads(args.colors, args.kelvin_values,
                                               args.include_no_kelvin)
          IN  rp' = [IdleRP EXCEPT
                       !.pc = "loop", !.args = args, !.network = network,
                       !.candidates = gen, !.queue = gen]
    /\ UNCHANGED non_probe_vars

\* The generator has yielded a candidate and this is not the first: sleep.
RP_Sleep ==
    /\ rp.pc = "loop" /\ rp.queue # <<>>
    /\ sleeps_before(rp.first)
    /\ rp' = [rp EXCEPT !.pc = "send", !.log = Append(@, "sleep")]
    /\ UNCHANGED non_probe_vars

\* send_control_command is called for the candidate and returns; the result
\* is appended, and the loop goes on or breaks.
RP_Attempt ==
    /\ \/ rp.pc = "send"
       \/ rp.pc = "loop" /\ rp.queue # <<>> /\ ~sleeps_before(rp.first)
    /\ LET x == exchange_of(rp.network, Len(rp.results) + 1)
           res == send_control_command(TRUE, x.tx, x.rx)
       IN  rp' = [rp EXCEPT
                    !.first = FALSE,
                    !.log = Append(@, "attempt"),
                    !.results = Append(@, ColorProbeResult(Head(rp.queue), res)),
                    !.queue = Tail(@),
                    !.pc = IF stops_probe(rp.args.stop_on_success, res)
                           THEN "returned" ELSE "loop"]
    /\ UNCHANGED non_probe_vars

\* make_control_socket raises in send_control_command, before its try: the
\* exception leaves run_color_probe, no list is returned.
RP_SocketRaises ==
    /\ \/ rp.pc = "send"
       \/ rp.pc = "loop" /\ rp.queue # <<>> /\ ~sleeps_before(rp.first)
    /\ rp' = [rp EXCEPT !.first = FALSE, !.log = Append(@, "attempt"),
                        !.pc = "raised"]
    /\ UNCHANGED non_probe_vars

\* The generator is exhausted: return results.
RP_Return ==
    /\ rp.pc = "loop" /\ rp.queue = <<>>
    /\ rp' = [rp EXCEPT !.pc = "returned"]
    /\ UNCHANGED non_probe_vars

NextProbe ==
    \/ RP_Call
    \/ RP_Sleep
    \/ RP_Attempt
    \/ RP_SocketRaises
    \/ RP_Return

SpecProbe == InitProbe /\ [][NextProbe]_vars

\* ------------------------------------------ the store's writers, called directly

\* Arguments of the calls: observations of two devices, interrogations of a
\* device of the registry, of one unknown to it and of a target without id,
\* key/value entries of a known and of an unknown device.
WriteObservations ==
    {Observation("ABCD1234", {"ip", "sku"}, 1, now) : now \in Times}
    \cup {Observation("ABCD1234", {"sku", "mac"}, 2, now) : now \in Times}
    \cup {Observation("EF567890", ObsFields, 2, now) : now \in Times}

WriteInterrogations ==
    {[device_id |-> d, ip |-> IpA, cmd |-> "devStatus", sent_at_ms |-> 1,
      received_at_ms |-> IntV(2), success |-> TRUE, error |-> e,
      request_obj |-> build_dev_status_request(d, None),
      response_obj |-> safe_json_loads(r)] :
        d \in {StrV("ABCD1234"), StrV("ZZZZ0000"), None},
        <<r, e>> \in {<<DevStatusReply, None>>,
                      <<UnexpectedReply, StrV("unexpected_cmd")>>}}
    \cup {[device_id |-> StrV("ABCD1234"), ip |-> IpA, cmd |-> "devStatus",
           sent_at_ms |-> 1, received_at_ms |-> None, success |-> FALSE,
           error |-> StrV("timeout"),
           request_obj |-> build_dev_status_request(StrV("ABCD1234"), None),
           response_obj |-> None]}

WriteEntries ==
    {[device_id |-> d, key |-> "status.onOff", value |-> v] :
        d \in {StrV("ABCD1234"), StrV("ZZZZ0000")}, v \in {Num("0"), Num("1")}}

InitWrites ==
    /\ \E h \in {<<>>, <<Heard(ScanOf("ABCD1234", FieldsIpSku), 1)>>} :
          /\ store = Replay(h)
          /\ received = h
          /\ upserts = <<>>
    /\ resolve_mac = FALSE
    /\ InterrogationIdle
    /\ sc = IdleSC
    /\ sr = IdleSR
    /\ cc = IdleCC
    /\ fc = NoCall
    /\ db = IdleDB
    /\ rp = IdleRP

WR_Upsert ==
    /\ Len(upserts) < MaxCalls
    /\ \E c \in WriteObservations :
          /\ store' = upsert_device_from_scan(store, c.device_id, c.ip, c.sku,
                           c.ble_hw, c.ble_sw, c.wifi_hw, c.wifi_sw, c.mac,
                           c.scan_payload_raw, c.seen_ms)
          /\ upserts' = Append(upserts, c)
    /\ UNCHANGED <<resolve_mac, received, interrogation_vars, control_vars>>

WR_RecordInterrogation ==
    /\ Len(store.interrogations) < MaxCalls
    /\ \E c \in WriteInterrogations :
          store' = record_interrogation(store, c.device_id, c.ip, c.cmd, c.sent_at_ms,
                       c.received_at_ms, c.success, c.error, c.request_obj,
                       c.response_obj)
    /\ UNCHANGED <<resolve_mac, received, upserts, interrogation_vars, control_vars>>

WR_SetKv ==
    /\ \E c \in WriteEntries, now \in Times :
          store' = set_kv(store, c.device_id, c.key, c.value, now)
    /\ UNCHANGED <<resolve_mac, received, upserts, interrogation_vars, control_vars>>

NextWrites ==
    \/ WR_Upsert
    \/ WR_RecordInterrogation
    \/ WR_SetKv

SpecWrites == InitWrites /\ [][NextWrites]_vars

\* --------------------------------- interrogate_all over discovered targets

\* Registries with a device that has no address (NOADDR01), with devices
\* seen at different times, and with devices seen at the same time.
TargetHistories ==
    {<<Heard(ScanOf("ABCD1234", FieldsFull1), 1),
       Heard(ScanOf("EF567890", FieldsFull2), 2),
       Heard(ScanOf("NOADDR01", [sku |-> StrV("H6160")]), 2)>>,
     <<Heard(ScanOf("ABCD1234", FieldsFull1), 1),
       Heard(ScanOf("EF567890", FieldsFull2), 1)>>}

InitTargets ==
    /\ \E h \in TargetHistories :
          /\ store = Replay(h)
          /\ received = h
          /\ upserts = ReplayCalls(h)
    /\ resolve_mac = FALSE
    /\ InterrogationIdle
    /\ sc = IdleSC
    /\ sr = IdleSR
    /\ cc = IdleCC
    /\ fc = NoCall
    /\ db = IdleDB
    /\ rp = IdleRP

SpecTargets == InitTargets /\ [][NextInterrogate]_vars

\* ------------------------------------- two connections to one database file

\* Two RegistryStore objects, A and B, opened on the same file by a listener
\* and by another caller.  store is what is committed.  Each connection runs
\* store calls statement by statement; sqlite3 opens a transaction before the
\* first INSERT or UPDATE of a call and SQLite lets one connection write at a
\* time: the writer holds the lock up to its commit, what it has written is
\* seen by the other connection only then.  A connection that finds the lock
\* taken, or finds that the other connection committed after its own SELECT,
\* may get sqlite3.OperationalError instead of the lock: the call raises and
\* has written nothing.
Conns == {"A", "B"}

DbObservations ==
    {Observation("ABCD1234", {"ip", "sku"}, 1, now) : now \in Times}
    \cup {Observation("ABCD1234", {"sku"}, 2, now) : now \in Times}

DbInterrogations ==
    {[t |-> "interrogation", device_id |-> StrV("ABCD1234"), ip |-> IpA,
      cmd |-> "devStatus", sent_at_ms |-> 1, received_at_ms |-> IntV(1),
      success |-> TRUE, error |-> None,
      request_obj |-> build_dev_status_request(StrV("ABCD1234"), StrV("H6159")),
      response_obj |-> safe_json_loads(DevStatusReply)],
     [t |-> "interrogation", device_id |-> None, ip |-> IpUnknown,
      cmd |-> "devStatus", sent_at_ms |-> 1, received_at_ms |-> None,
      success |-> FALSE, error |-> StrV("timeout"),
      request_obj |-> build_dev_status_request(None, None),
      response_obj |-> None]}

InitConnections ==
    /\ store = EmptyStore
    /\ resolve_mac = FALSE
    /\ received = <<>>
    /\ upserts = <<>>
    /\ InterrogationIdle
    /\ sc = IdleSC
    /\ sr = IdleSR
    /\ cc = IdleCC
    /\ fc = NoCall
    /\ db = IdleDB
    /\ rp = IdleRP

non_db_vars ==
    <<resolve_mac, received, upserts, interrogation_vars, sc, sr, cc, fc, rp>>

\* The store calls begun so far: committed, raised, or under way.
Begun ==
    Len(db.commits) + db.failed
    + Cardinality({c \in Conns : db.conns[c].pc # "idle"})

\* upsert_device_from_scan begins on connection c: the SELECT runs.
DB_Select(c) ==
    /\ db.conns[c].pc = "idle" /\ Begun < MaxTxns
    /\ \E op \in DbObservations :
          db' = [db EXCEPT !.conns[c] =
                    [pc |-> "selected", op |-> op,
                     first_seen_ms |-> IntV(select_first_seen(store, op)),
                     pending |-> [saw_row |-> op.device_id.v \in DOMAIN store.devices,
                                  snapshot |-> Len(db.commits)]]]
    /\ UNCHANGED <<store, non_db_vars>>

\* The INSERT ... ON CONFLICT of the upsert takes the write lock and runs.
DB_Upsert(c) ==
    /\ db.conns[c].pc = "selected" /\ db.lock = "none"
    /\ db' = [db EXCEPT
                !.lock = c,
                !.conns[c].pc = "written",
                !.conns[c].pending =
                    [saw_row |-> db.conns[c].pending.saw_row,
                     rows |-> upsert_statement(store, db.conns[c].op,
                                               db.conns[c].first_seen_ms.n)]]
    /\ UNCHANGED <<store, non_db_vars>>

\* The INSERT of the upsert gets OperationalError: the call raises.
DB_UpsertLocked(c) ==
    /\ db.conns[c].pc = "selected"
    /\ db.lock # "none" \/ Len(db.commits) > db.conns[c].pending.snapshot
    /\ db' = [db EXCEPT !.conns[c] = IdleConn, !.failed = @ + 1]
    /\ UNCHANGED <<store, non_db_vars>>

\* record_interrogation begins on connection c: its INSERT takes the write
\* lock and runs.
DB_Insert(c) ==
    /\ db.conns[c].pc = "idle" /\ Begun < MaxTxns /\ db.lock = "none"
    /\ \E op \in DbInterrogations :
          db' = [db EXCEPT
                    !.lock = c,
                    !.conns[c] =
                        [pc |-> IF updates_last_status(op) THEN "inserted"
                                ELSE "written",
                         op |-> op, first_seen_ms |-> None,
                         pending |-> [saw_row |-> FALSE,
                                      rows |-> insert_interrogation(store, op)]]]
    /\ UNCHANGED <<store, non_db_vars>>

\* The INSERT of record_interrogation gets OperationalError: the call raises.
DB_InsertLocked(c) ==
    /\ db.conns[c].pc = "idle" /\ Begun < MaxTxns /\ db.lock \notin {"none", c}
    /\ db' = [db EXCEPT !.failed = @ + 1]
    /\ UNCHANGED <<store, non_db_vars>>

\* The UPDATE of record_interrogation runs inside the open transaction.
DB_Update(c) ==
    /\ db.conns[c].pc = "inserted"
    /\ db' = [db EXCEPT
                !.conns[c].pc = "written",
                !.conns[c].pending.rows =
                    update_last_status(@, db.conns[c].op)]
    /\ UNCHANGED <<store, non_db_vars>>

\* conn.commit(): what the call wrote becomes the committed state, the lock
\* is released.
DB_Commit(c) ==
    /\ db.conns[c].pc = "written"
    /\ store' = db.conns[c].pending.rows
    /\ db' = [db EXCEPT
                !.lock = "none",
                !.conns[c] = IdleConn,
                !.commits = Append(@, [conn |-> c, op |-> db.conns[c].op,
                                       saw_row |-> db.conns[c].pending.saw_row])]
    /\ UNCHANGED non_db_vars

NextConnections ==
    \E c \in Conns :
        \/ DB_Select(c)
        \/ DB_Upsert(c)
        \/ DB_UpsertLocked(c)
        \/ DB_Insert(c)
        \/ DB_InsertLocked(c)
        \/ DB_Update(c)
        \/ DB_Commit(c)

SpecConnections == InitConnections /\ [][NextConnections]_vars

\* ------------------------------------------------------------------- claims

\* The value of field f in the most recent call for device d that carried it.
RECURSIVE LastNonNull(_, _, _)
LastNonNull(calls, d, f) ==
    IF calls = <<>> THEN None
    ELSE LET c == calls[Len(calls)] IN
         IF c.device_id.v = d /\ c[f] # None THEN c[f]
         ELSE LastNonNull(SubSeq(calls, 1, Len(calls) - 1), d, f)

ColumnOf ==
    [ip |-> "ip", sku |-> "sku", ble_hw |-> "ble_version_hard",
     ble_sw |-> "ble_version_soft", wifi_hw |-> "wifi_version_hard",
     wifi_sw |-> "wifi_version_soft", mac |-> "mac"]

\* C1: after any sequence of upsert_device_from_scan calls, every device that
\* was observed has a row, and each of ip, sku, the four version fields and
\* mac of that row equals the value of the most recent observation of the
\* device in which the field was non-null (None when there was none).
C1_NullSafeMerge ==
    /\ \A i \in 1..Len(upserts) : upserts[i].device_id.v \in DOMAIN store.devices
    /\ \A d \in DOMAIN store.devices : \A f \in ObsFields :
          store.devices[d][ColumnOf[f]] = LastNonNull(upserts, d, f)

\* A set {ip, sku}, then B for the same device set {mac} only: ip and sku are
\* A's, mac is B's.
C1_Witness ==
    /\ Len(upserts) = 2
    /\ upserts[1].device_id = upserts[2].device_id
    /\ upserts[1].ip # None /\ upserts[1].sku # None /\ upserts[1].mac = None
    /\ upserts[2].ip = None /\ upserts[2].sku = None /\ upserts[2].mac # None
    /\ LET row == store.devices[upserts[1].device_id.v] IN
          /\ row.ip = upserts[1].ip /\ row.sku = upserts[1].sku
          /\ row.mac = upserts[2].mac

\* The ScanEvent a delivered datagram stands for: receipt time, source
\* address and port, and the text the bytes decode to.
ScanEventOf(r) ==
    [received_at_ms |-> r.at, src_ip |-> r.addr[1], src_port |-> r.addr[2],
     payload_raw |-> decode_replace(r.data)]

\* C2: the scan-event log is, entry for entry and in order, the sequence of
\* datagrams the listener was handed -- one ScanEvent per datagram whether or
\* not it decodes or is a scan response, none altered, none removed.
C2_ScanLogIsHistory ==
    /\ Len(store.scan_events) = Len(received)
    /\ \A i \in 1..Len(received) : store.scan_events[i] = ScanEventOf(received[i])

\* An undecodable datagram followed by a scan response: both are logged.
C2_Witness ==
    /\ Len(received) = 2
    /\ received[1].data.enc = "badutf8"
    /\ received[2].data.enc = "json"
    /\ Len(upserts) = 1
    /\ Len(store.scan_events) = 2
    /\ store.scan_events[1].payload_raw = StrV("\\ufffd")

\* A datagram is a scan response naming a device: JSON text of an object whose
\* msg is an object with cmd "scan" and an object data whose device is a
\* non-empty string.
IsNamedScan(data) ==
    /\ data.enc = "json"
    /\ data.val.t = "obj"
    /\ "msg" \in DOMAIN data.val.kv
    /\ LET msg == data.val.kv["msg"] IN
       /\ msg.t = "obj"
       /\ "cmd" \in DOMAIN msg.kv /\ msg.kv["cmd"] = StrV("scan")
       /\ "data" \in DOMAIN msg.kv /\ msg.kv["data"].t = "obj"
       /\ "device" \in DOMAIN msg.kv["data"].kv
       /\ LET dev == msg.kv["data"].kv["device"] IN
             dev.t = "str" /\ dev.v # ""

NamedScanData(data) == data.val.kv["msg"].kv["data"]

\* C3: a delivered datagram creates or updates a Device row exactly when it
\* is a scan response naming a device, and then only that device's row; any
\* other datagram leaves the devices table as it was.  A scan response for a
\* device id not yet known adds one ScanEvent and one Device row, carrying the
\* announced ip and sku.
C3_Step ==
    Len(received') = Len(received) + 1 =>
        LET r == received'[Len(received')] IN
        IF ~IsNamedScan(r.data) THEN store'.devices = store.devices
        ELSE LET sd == NamedScanData(r.data)
                 d == Get(sd, "device").v
             IN  /\ DOMAIN store'.devices = DOMAIN store.devices \cup {d}
                 /\ \A e \in DOMAIN store.devices \ {d} :
                        store'.devices[e] = store.devices[e]
                 /\ store'.devices[d].last_seen_ms = r.at
                 /\ store'.devices[d].last_scan_payload = json_dumps(r.data.val)
                 /\ d \notin DOMAIN store.devices =>
                        /\ Len(store'.scan_events) = Len(store.scan_events) + 1
                        /\ store'.devices[d].first_seen_ms = r.at
                        /\ store'.devices[d].ip = StrOrNone(Get(sd, "ip"))
                        /\ store'.devices[d].sku = StrOrNone(Get(sd, "sku"))

\* C3: in every step a datagram changes the devices table iff it is a scan
\* response that names a device, and adds exactly one ScanEvent.
C3_ScanResponseIffUpsert == [][C3_Step]_vars

\* The scan envelope of device ABCD1234 at 192.168.1.50, sku H6159, arrives
\* at an empty registry.
C3_Witness ==
    /\ Len(received) = 1
    /\ received[1].data =
         JsonBytes(Envelope(StrV("scan"),
             Obj([device |-> StrV("ABCD1234"), ip |-> StrV("192.168.1.50"),
                  sku |-> StrV("H6159")])))
    /\ Len(store.scan_events) = 1
    /\ DOMAIN store.devices = {"ABCD1234"}
    /\ store.devices["ABCD1234"].ip = StrV("192.168.1.50")
    /\ store.devices["ABCD1234"].sku = StrV("H6159")

\* ------------------------------------------------ claims on interrogation

Rows == store.interrogations

\* interrogate_all has ended, by returning or by an exception.
RunEnded == ia.pc \in {"done", "raised"}

\* C4: when an interrogate_all run has ended, the Interrogation rows it
\* appended are as many as its targets -- one per target, whatever the
\* outcome of the target's exchange.
C4_EveryAttemptRecorded ==
    RunEnded => Len(Rows) = Len(ia.targets)

\* The exchange with target i failed: its row says so, or its send raised.
TargetFailed(i) ==
    \/ i <= Len(Rows) /\ Rows[i].success = 0
    \/ ia.pc = "raised" /\ ia.idx = i

RequestSentTo(j) == \E k \in 1..Len(requests) : requests[k].idx = j

\* C5: when an interrogate_all run has ended, every target that comes after
\* a target whose exchange failed was still sent its request: no failure of
\* one target aborts the batch.
C5_FailuresIsolated ==
    RunEnded =>
        \A i, j \in 1..Len(ia.targets) :
            (i < j /\ TargetFailed(i)) => RequestSentTo(j)

\* C6: the response stored in the row of a target is a datagram that this
\* target sent in answer to this target's request.
C6_ResponseCorrelated ==
    \A i \in 1..Len(Rows) :
        Rows[i].response_json # None =>
            /\ answers[i] # None
            /\ answers[i].src = Rows[i].ip
            /\ answers[i].reply_to # 0
            /\ requests[answers[i].reply_to].idx = i

\* C7 as stated: a JSON-decodable payload ends the wait, so while the call
\* still waits every datagram it has been handed was undecodable.
C7_DecodableEndsWait ==
    ia.pc = "recv" => heard \subseteq {"undecodable"}

\* C7, amended: the call keeps receiving until a payload that decodes to a
\* JSON object arrives or the original deadline has passed.  While it waits
\* the deadline stays what it was and no JSON object has been handed to it;
\* a datagram that is no JSON object leaves it waiting; it returns a response
\* only for a JSON object that arrived before the deadline, which is then the
\* first one, and returns timeout only once the deadline has passed.
C7_Step ==
    /\ ia'.pc = "recv" => "object" \notin heard'
    /\ (ia.pc = "recv" /\ ia'.pc = "recv") => ia'.deadline = ia.deadline
    /\ (ia.pc = "recv" /\ ia'.pc # "recv") =>
          LET row == store'.interrogations[Len(store'.interrogations)]
              a == answers'[Len(answers')]
          IN  IF a # None
              THEN /\ Kind(a.data) = "object"
                   /\ mono < ia.deadline
                   /\ row.success = 1
                   /\ row.response_json = json_dumps(safe_json_loads(a.data))
              ELSE /\ row.success = 0
                   /\ row.response_json = None
                   /\ row.error = StrV("timeout") => mono >= ia.deadline

\* C7, amended: in every step the wait continues until a JSON object arrives
\* or the original deadline has passed.
C7_ObjectEndsWait == [][C7_Step]_vars

\* The call has been handed undecodable bytes and JSON that is no object, time
\* has passed, and it still waits.
C7_Witness ==
    /\ ia.pc = "recv"
    /\ heard = {"undecodable", "nonobject"}
    /\ mono > 0 /\ mono < ia.deadline

\* A reply names the command devStatus.
IsDevStatusEnvelope(obj) ==
    /\ obj.t = "obj"
    /\ "msg" \in DOMAIN obj.kv
    /\ obj.kv["msg"].t = "obj"
    /\ "cmd" \in DOMAIN obj.kv["msg"].kv
    /\ obj.kv["msg"].kv["cmd"] = StrV("devStatus")

\* C8: a JSON-object reply whose command name is not devStatus is kept: the
\* row of the attempt stores that payload as its response, with error
\* "unexpected_cmd".
C8_UnexpectedKept ==
    \A i \in 1..Len(Rows) :
        (answers[i] # None /\ ~IsDevStatusEnvelope(safe_json_loads(answers[i].data))) =>
            /\ Rows[i].error = StrV("unexpected_cmd")
            /\ Rows[i].response_json = json_dumps(safe_json_loads(answers[i].data))

\* A turn reply to a devStatus request has been recorded.
C8_Witness ==
    \E i \in 1..Len(Rows) :
        /\ answers[i] # None /\ answers[i].data = UnexpectedReply
        /\ Rows[i].error = StrV("unexpected_cmd")
        /\ Rows[i].response_json = json_dumps(UnexpectedReply.val)

\* Row i holds a successful device-status response: the exchange succeeded
\* and the reply recorded is a devStatus reply.
IsStatusResponseRow(i) ==
    /\ Rows[i].success = 1
    /\ answers[i] # None
    /\ IsDevStatusEnvelope(safe_json_loads(answers[i].data))

RECURSIVE LastStatusResponse(_, _)
LastStatusResponse(d, n) ==
    IF n = 0 THEN None
    ELSE IF Rows[n].device_id = StrV(d) /\ IsStatusResponseRow(n)
         THEN Rows[n].response_json
         ELSE LastStatusResponse(d, n - 1)

\* C9: a device's last_status_payload is empty or is the response of the
\* most recent successful device-status response recorded for the device.
C9_SnapshotIsLastStatus ==
    \A d \in DOMAIN store.devices :
        \/ store.devices[d].last_status_payload = None
        \/ store.devices[d].last_status_payload = LastStatusResponse(d, Len(Rows))

\* --------------------------------------------------- claims on control

\* The datagram decodes to a JSON object.
DecodesToObject(data) == data.enc = "json" /\ data.val.t = "obj"

\* C10: a returned send_control_command call has made at most one receive and
\* its result is the one outcome its exchange determines: (True, None, None)
\* without a receive when no response is awaited; (True, response, None) when
\* the receive yields a JSON object; (True, None, "timeout") when nothing
\* arrives in time; (True, None, "invalid_json") when what arrives is no JSON
\* object; delivered=False with an error detail exactly when the send or the
\* receive raised locally. A call that raises instead of returning has sent
\* nothing: no exchange took place.
C10_OutcomeClassified ==
    /\ sc.pc = "raised" => (sc.sends = 0 /\ sc.recvs = 0 /\ sc.tx = "none")
    /\ sc.pc = "returned" =>
        LET r == sc.result
            sent == sc.tx = "ok"
        IN
        /\ sc.recvs <= 1
        /\ r.ok = FALSE <=> (~sent \/ sc.rx.kind = "oserror")
        /\ r.ok = FALSE => (r.resp = None /\ r.err # None)
        /\ (sent /\ ~sc.wait_response) =>
              (r = Result(TRUE, None, None) /\ sc.recvs = 0)
        /\ (sent /\ sc.wait_response) =>
              /\ sc.recvs = 1
              /\ sc.rx.kind = "timeout" => r = Result(TRUE, None, StrV("timeout"))
              /\ (sc.rx.kind = "data" /\ DecodesToObject(sc.rx.data)) =>
                    r = Result(TRUE, sc.rx.data.val, None)
              /\ (sc.rx.kind = "data" /\ ~DecodesToObject(sc.rx.data)) =>
                    r = Result(TRUE, None, StrV("invalid_json"))

\* A command was sent, a response awaited, and nothing arrived in time.
C10_Witness ==
    /\ sc.pc = "returned"
    /\ sc.wait_response /\ sc.sends = 1 /\ sc.recvs = 1
    /\ sc.rx.kind = "timeout"
    /\ sc.result = Result(TRUE, None, StrV("timeout"))

\* ------------------------------------------------ claims on retries, timeouts

\* The requests an interrogate_all run has sent to its target number j.
RequestsTo(j) == {k \in 1..Len(requests) : requests[k].idx = j}

\* No target is ever sent a second request, and no send_control_command call
\* sends a second datagram.
NeverResent ==
    /\ \A j \in 1..Len(ia.targets) : Cardinality(RequestsTo(j)) <= 1
    /\ sc.sends <= 1

\* C11: when an interrogate_all run has ended, each target of its resolved
\* list was sent exactly one devStatus request.
C11_OneRequestPerTarget ==
    RunEnded =>
        \A j \in 1..Len(ia.targets) : Cardinality(RequestsTo(j)) = 1

\* C12: when the wait for a target's reply ends with the deadline passed --
\* nothing that could end it arrived within the timeout -- exactly one
\* Interrogation row is appended for that target's ip, with success = 0,
\* error "timeout", received_at NULL and no response, and neither the devices
\* nor the key/value table changes.
C12_Step ==
    (ia.pc = "recv" /\ ia'.pc # "recv" /\ mono >= ia.deadline) =>
        LET rows == store'.interrogations
            row == rows[Len(rows)]
        IN  /\ Len(rows) = Len(store.interrogations) + 1
            /\ row.ip = CurrentTarget.ip
            /\ row.cmd = "devStatus"
            /\ row.sent_at_ms = ia.sent
            /\ row.success = 0
            /\ row.error = StrV("timeout")
            /\ row.received_at_ms = None
            /\ row.response_json = None
            /\ store'.devices = store.devices
            /\ store'.device_kv = store.device_kv

ReplyData(resp) ==
    IF IsDict(Get(resp, "msg")) /\ IsDict(Get(Get(resp, "msg"), "data"))
    THEN Get(Get(resp, "msg"), "data") ELSE None

\* The key/value entry under key, None when there is none.
KVEntry(st, key) == IF key \in DOMAIN st.device_kv THEN st.device_kv[key] ELSE None

StatusFields == {"onOff", "brightness", "color", "colorTemInKelvin"}

\* C13: when an attempt ends, and it succeeded for a target with a known
\* device id with enrichment enabled, every one of the four status fields the
\* reply's data names has its entry (device_id, "status.<field>") set to the
\* reply's value; every other entry -- of a field the reply does not name, of
\* another key, of another device -- is what it was.  With enrichment
\* disabled, an unknown device id or a failed attempt no entry changes.
C13_Step ==
    Len(answers') = Len(answers) + 1 =>
        LET dg == answers'[Len(answers')]
            target == ia'.targets[ia'.idx - 1]
            row == store'.interrogations[Len(store'.interrogations)]
            data == IF dg = None THEN None ELSE ReplyData(safe_json_loads(dg.data))
            enriches ==
                /\ dg # None /\ row.success = 1
                /\ ia'.enrich /\ target.device_id # None /\ data # None
            named == IF enriches
                     THEN {<<target.device_id.v, "status." \o f>> :
                              f \in StatusFields \cap DOMAIN data.kv}
                     ELSE {}
        IN  /\ \A f \in StatusFields :
                  (enriches /\ f \in DOMAIN data.kv) =>
                      /\ <<target.device_id.v, "status." \o f>> \in DOMAIN store'.device_kv
                      /\ store'.device_kv[<<target.device_id.v, "status." \o f>>].value
                             = json_dumps(data.kv[f])
            /\ DOMAIN store'.device_kv = DOMAIN store.device_kv \cup named
            /\ \A key \in DOMAIN store.device_kv \ named :
                  store'.device_kv[key] = store.device_kv[key]

\* C13: in every step that ends an attempt, enrichment sets exactly the
\* status entries the reply names and leaves every other entry unchanged.
C13_EnrichmentSetsNamedFields == [][C13_Step]_vars

\* ABCD1234 answered onOff=1, brightness=80 and later brightness=30 and a
\* color: onOff is kept, brightness replaced, color added, and the other
\* device has no entry.
C13_Witness ==
    /\ Len(answers) = 2
    /\ KVEntry(store, <<"ABCD1234", "status.onOff">>) # None
    /\ store.device_kv[<<"ABCD1234", "status.onOff">>].value = json_dumps(Num("1"))
    /\ KVEntry(store, <<"ABCD1234", "status.brightness">>) # None
    /\ store.device_kv[<<"ABCD1234", "status.brightness">>].value = json_dumps(Num("30"))
    /\ KVEntry(store, <<"ABCD1234", "status.color">>) # None
    /\ \A key \in DOMAIN store.device_kv : key[1] = "ABCD1234"

\* ------------------------------------------------ claims on the timestamps

\* C14: a call of upsert_device_from_scan for a device that has a row leaves
\* that row's last_seen equal to the call's seen time, whether it is later
\* than, equal to or earlier than the last_seen stored before.
C14_Step ==
    (Len(upserts') = Len(upserts) + 1
        /\ upserts'[Len(upserts')].device_id.v \in DOMAIN store.devices) =>
        LET c == upserts'[Len(upserts')] IN
        /\ c.device_id.v \in DOMAIN store'.devices
        /\ store'.devices[c.device_id.v].last_seen_ms = c.seen_ms

\* C14: in every step an upsert for an existing device sets last_seen to the
\* observation's seen time, older or not.
C14_LastSeenUnconditional == [][C14_Step]_vars

\* The second observation of a device is older than the first, and last_seen
\* is the second's time.
C14_Witness ==
    /\ Len(upserts) = 2
    /\ upserts[1].device_id = upserts[2].device_id
    /\ upserts[2].seen_ms < upserts[1].seen_ms
    /\ store.devices[upserts[2].device_id.v].last_seen_ms = upserts[2].seen_ms

\* The observation of a call without its seen time.
ObservedFields(c) == [c EXCEPT !.seen_ms = 0]

\* C16: when a call of upsert_device_from_scan repeats the observation of the
\* call before it (the same device and fields; the seen time may differ), the
\* device's row after it differs from the row before it in last_seen at
\* most -- ip, sku, versions, mac, last scan payload, first_seen and all else
\* are what the first application left -- and no other row changes.
C16_Step ==
    (Len(upserts') = Len(upserts) + 1 /\ Len(upserts) >= 1
        /\ ObservedFields(upserts'[Len(upserts')]) = ObservedFields(upserts[Len(upserts)])) =>
        LET c == upserts'[Len(upserts')]
            d == c.device_id.v
        IN  /\ DOMAIN store'.devices = DOMAIN store.devices
            /\ store'.devices =
                  [store.devices EXCEPT ![d].last_seen_ms = c.seen_ms]

\* C16: in every step that applies the same observation a second time in a
\* row, only last_seen of the Device row may change.
C16_UpsertIdempotent == [][C16_Step]_vars

\* The same full observation was applied twice, the second time later: the
\* row carries the first time as first_seen and the second as last_seen.
C16_Witness ==
    /\ Len(upserts) = 2
    /\ ObservedFields(upserts[1]) = ObservedFields(upserts[2])
    /\ upserts[1].ip # None /\ upserts[1].mac # None
    /\ upserts[1].seen_ms < upserts[2].seen_ms
    /\ LET row == store.devices[upserts[1].device_id.v] IN
          /\ row.ip = upserts[1].ip /\ row.mac = upserts[1].mac
          /\ row.first_seen_ms = upserts[1].seen_ms
          /\ row.last_seen_ms = upserts[2].seen_ms

\* C15: no step deletes a Device row or changes its first_seen, and a step
\* that creates a row -- the first upsert of a device_id -- gives it
\* first_seen = last_seen = the seen time of that observation.  Hence after
\* any sequence of upserts, interrogations and key/value writes first_seen is
\* the time of the device's first observation.
C15_Step ==
    /\ \A d \in DOMAIN store.devices :
          /\ d \in DOMAIN store'.devices
          /\ store'.devices[d].first_seen_ms = store.devices[d].first_seen_ms
    /\ \A d \in DOMAIN store'.devices \ DOMAIN store.devices :
          /\ Len(upserts') = Len(upserts) + 1
          /\ upserts'[Len(upserts')].device_id.v = d
          /\ \A i \in 1..Len(upserts) : upserts[i].device_id.v # d
          /\ store'.devices[d].first_seen_ms = upserts'[Len(upserts')].seen_ms
          /\ store'.devices[d].last_seen_ms = upserts'[Len(upserts')].seen_ms

\* C15: in every step first_seen of every existing Device row is unchanged,
\* no row is deleted, and a created row has first_seen = last_seen.
C15_FirstSeenImmutable == [][C15_Step]_vars

\* ABCD1234 was first observed at time 2 and again at the earlier time 1, was
\* interrogated and enriched: first_seen is still 2.
C15_Witness ==
    /\ Len(upserts) = 2
    /\ upserts[1].device_id.v = "ABCD1234" /\ upserts[2].device_id.v = "ABCD1234"
    /\ upserts[1].seen_ms = 2 /\ upserts[2].seen_ms = 1
    /\ \E i \in 1..Len(Rows) : Rows[i].device_id = StrV("ABCD1234")
    /\ <<"ABCD1234", "status.onOff">> \in DOMAIN store.device_kv
    /\ store.devices["ABCD1234"].first_seen_ms = 2
    /\ store.devices["ABCD1234"].last_seen_ms = 1

\* ------------------------------------------------- claims on references

\* The device id was observed by a scan response.
Observed(d) == \E k \in 1..Len(upserts) : upserts[k].device_id.v = d

C17_Referenced ==
    /\ \A i \in 1..Len(Rows) :
          Rows[i].device_id # None =>
              (Rows[i].device_id.v \in DOMAIN store.devices /\ Observed(Rows[i].device_id.v))
    /\ \A key \in DOMAIN store.device_kv :
          key[1] \in DOMAIN store.devices /\ Observed(key[1])

C17_Step ==
    (Len(answers') = Len(answers) + 1
        /\ \A d \in DOMAIN store.devices :
              store.devices[d].ip # requests'[Len(requests')].ip) =>
        LET row == store'.interrogations[Len(store'.interrogations)] IN
        /\ row.ip = requests'[Len(requests')].ip
        /\ row.device_id = None
        /\ store'.device_kv = store.device_kv

\* C17: in every state, each Interrogation row that carries a device_id and
\* each KeyValue row names a device that has a Device row and that a scan
\* observation created; and an attempt at an ip no Device row has is recorded
\* with device_id NULL and writes no KeyValue row.
C17_ReferentialInvariant == []C17_Referenced /\ [][C17_Step]_vars

\* ABCD1234 was interrogated and enriched, and the unknown ip 192.168.1.60
\* was interrogated: its row has no device id and all key/value rows are
\* ABCD1234's.
C17_Witness ==
    /\ \E i \in 1..Len(Rows) : Rows[i].device_id = StrV("ABCD1234")
    /\ \E i \in 1..Len(Rows) : Rows[i].ip = IpUnknown /\ Rows[i].device_id = None
    /\ DOMAIN store.device_kv # {}
    /\ \A key \in DOMAIN store.device_kv : key[1] = "ABCD1234"

\* ------------------------------------------------------ claims on run_scan

\* C18: a step that sends a scan request starts from a state in which
\* run_listener has returned -- the listener socket is bound to the response
\* port, joined to the multicast group and registered to deliver datagrams.
C18_Step ==
    Len(sr'.sent) > Len(sr.sent) =>
        /\ sr.lpc = "done"
        /\ sr.bound /\ sr.joined /\ sr.registered

\* C18: in every step of a scan run no scan request is sent before the
\* listener is bound, joined and registered.
C18_ListenerBeforeScan == [][C18_Step]_vars

\* A scan request has gone out, the listener is set up, and a scan response
\* to it has been handled.
C18_Witness ==
    /\ Len(sr.sent) >= 1
    /\ sr.bound /\ sr.joined /\ sr.registered
    /\ Len(upserts) >= 1

MaxOf(a, b) == IF a > b THEN a ELSE b

IsValidScan(r) == IsNamedScan(r.data)

\* The registry a listener run builds from the history h of datagrams.
RECURSIVE ReplayListener(_, _)
ReplayListener(h, rm) ==
    IF h = <<>> THEN EmptyStore
    ELSE LET r == h[Len(h)] IN
         datagram_received(ReplayListener(SubSeq(h, 1, Len(h) - 1), rm), rm,
                           r.data, r.addr, r.at, r.neigh)

\* C20: after any sequence of datagrams the listener can still be handed
\* the next one, every datagram has been logged, and the devices table is the
\* one the run would have built had only the scan responses that name a
\* device arrived: undecodable bytes, JSON that is no object and objects with
\* another envelope change nothing about how the valid ones are upserted.
C20_BadDatagramsHarmless ==
    /\ Len(received) < MaxEvents => ENABLED DatagramReceived
    /\ Len(store.scan_events) = Len(received)
    /\ store.devices =
          ReplayListener(SelectSeq(received, IsValidScan), resolve_mac).devices

\* Undecodable bytes came first, then a scan response: the device has its
\* row, seen at the time of the scan response.
C20_Witness ==
    /\ Len(received) = 2
    /\ received[1].data.enc = "badutf8"
    /\ IsNamedScan(received[2].data)
    /\ Len(store.scan_events) = 2
    /\ LET d == NamedScanData(received[2].data).kv["device"].v IN
          /\ d \in DOMAIN store.devices
          /\ store.devices[d].last_seen_ms = received[2].at
          /\ store.devices[d].first_seen_ms = received[2].at

\* ------------------------------------------------ claims on undecodable bytes

\* The wait for the current target ends at the deadline after it was handed
\* bytes that are not valid UTF-8 JSON, and nothing else.
C21_Step ==
    (/\ ia.pc = "recv" /\ ia'.pc # "recv"
     /\ heard = {"undecodable"}
     /\ mono >= ia.deadline) =>
        LET row == store'.interrogations[Len(store'.interrogations)]
        IN  row.error \notin {None, StrV("timeout"), StrV("unexpected_cmd")}

\* C21: bytes that are not valid UTF-8 JSON give the caller of
\* interrogate_device_dev_status an explicit could-not-decode outcome: when
\* such bytes are all the call was handed, the outcome recorded for the target
\* is an error other than the no-reply outcome "timeout" and other than the
\* unexpected-shape outcome "unexpected_cmd".
C21_UndecodableReported == [][C21_Step]_vars


\* ------------------------------------------- claims on the command builders

\* C22: the single-value builders validate their argument: a call of
\* build_brightness_command fails with a validation error exactly when the value
\* lies outside 0..100 (it returns a command for 0 and for 100), and a call of
\* build_color_temp_command fails with a validation error for a Kelvin value
\* of zero or less.
C22_BuildersValidate ==
    /\ fc.f = "build_brightness_command" =>
          (Raised(fc.out) <=> fc.args.value \notin 0..100)
    /\ fc.f = "build_color_temp_command" =>
          (fc.args.kelvin <= 0 => Raised(fc.out))

ColorFamily == {"color", "setColor"}
TemperatureFamily == {"colorwc", "setColorWC"}

KelvinOnly ==
    /\ fc.f = "build_color_payload"
    /\ fc.args.color = None
    /\ fc.args.kelvin # None /\ fc.args.kelvin.n > 0
    /\ fc.args.scale_max \in {100, 255}

\* C24 as stated: a command of the family that requires a color (color,
\* setColor) built with a positive Kelvin and no color succeeds.
C24_ColorFamilyKelvinOnly ==
    (KelvinOnly /\ Text(strip(fc.args.command.chars)) \in ColorFamily) =>
        ~Raised(fc.out)

\* C24, amended: built with a positive Kelvin and no color, a command of the
\* family that requires a color (color, setColor) fails with the validation
\* error that a color is required, and a command of the family that requires
\* a temperature (colorwc, setColorWC) succeeds with a payload that carries
\* the Kelvin value alone.
C24_KelvinOnlyByFamily ==
    KelvinOnly =>
        LET cmd == Text(strip(fc.args.command.chars)) IN
        /\ cmd \in ColorFamily =>
              fc.out = ValueError("command requires a color value")
        /\ cmd \in TemperatureFamily =>
              fc.out = Envelope(StrV(cmd),
                                Obj([colorTemInKelvin |-> fc.args.kelvin]))

\* setColor was built with a Kelvin of 2700 and no color, and was refused.
C24_Witness ==
    /\ KelvinOnly
    /\ fc.args.command = Str(<<"s", "e", "t", "C", "o", "l", "o", "r">>)
    /\ fc.args.kelvin = IntV(2700)
    /\ Raised(fc.out)

Abs(x) == IF x < 0 THEN 0 - x ELSE x

\* C25: _scale_color with scale 255 returns the triple unchanged; with scale
\* 100 it returns for each channel c in 0..255 the integer nearest to
\* c * 100 / 255 (the even one of a tie), which lies in 0..100, so that
\* (255, 128, 0) becomes (100, 50, 0); with any other scale it raises
\* ValueError.
C25_ScaleRounds ==
    fc.f = "_scale_color" =>
        LET c == fc.args.color.v
            s == fc.args.scale_max
        IN  /\ s = 255 => fc.out = fc.args.color
            /\ s = 100 =>
                  /\ ~Raised(fc.out)
                  /\ \A i \in 1..3 :
                        /\ c[i] \in 0..255
                        /\ fc.out.v[i] \in 0..100
                        /\ 2 * Abs(255 * fc.out.v[i] - 100 * c[i]) <= 255
                        /\ 2 * Abs(255 * fc.out.v[i] - 100 * c[i]) = 255 =>
                              fc.out.v[i] % 2 = 0
                  /\ c = <<255, 128, 0>> => fc.out = RGB(100, 50, 0)
            /\ s \notin {100, 255} =>
                  (Raised(fc.out) /\ fc.out.exc = "ValueError")

\* (255, 128, 0) was scaled to 100.
C25_Witness ==
    /\ fc.f = "_scale_color"
    /\ fc.args = [color |-> RGB(255, 128, 0), scale_max |-> 100]
    /\ fc.out = RGB(100, 50, 0)

\* The table of named colors as the claim lists it.
NamedColors ==
    ("red" :> RGB(255, 0, 0)) @@ ("green" :> RGB(0, 255, 0))
    @@ ("blue" :> RGB(0, 0, 255)) @@ ("white" :> RGB(255, 255, 255))
    @@ ("warm-white" :> RGB(255, 244, 229)) @@ ("yellow" :> RGB(255, 255, 0))
    @@ ("orange" :> RGB(255, 165, 0)) @@ ("purple" :> RGB(128, 0, 128))
    @@ ("pink" :> RGB(255, 105, 180)) @@ ("cyan" :> RGB(0, 255, 255))
    @@ ("magenta" :> RGB(255, 0, 255))

\* C26: parse_color returns the triple of the table for each of the names red,
\* green, blue, white, warm-white, yellow, orange, purple, pink, cyan,
\* magenta in any letter case, returns the triple of its three bytes for a
\* string of six hex digits with or without a leading '#', and raises a
\* validation error for every other string (strings are taken without
\* surrounding whitespace).
C26_ParsesNamedAndHex ==
    fc.f = "parse_color" =>
        LET s == lower(strip(fc.args.value.chars))
            hex == COLOR_HEX_RE(s)
        IN  IF Text(s) \in DOMAIN NamedColors THEN fc.out = NamedColors[Text(s)]
            ELSE IF hex # <<>>
            THEN fc.out = RGB(16 * HexValue(hex[1]) + HexValue(hex[2]),
                              16 * HexValue(hex[3]) + HexValue(hex[4]),
                              16 * HexValue(hex[5]) + HexValue(hex[6]))
            ELSE Raised(fc.out) /\ fc.out.exc = "ValueError"

\* ------------------------------------------ claims on validation and I/O

\* C27 as stated: once command construction or color parsing has failed
\* validation in a cmd_control invocation, the failure is reported when the
\* invocation returns and the invocation has opened no socket and sent no
\* datagram; a datagram is sent only after a payload was built.
C27_ValidationBeforeIO ==
    /\ (cc.invalid \/ cc.rejected > 0) =>
          /\ cc.socks = 0 /\ cc.sends = 0
          /\ cc.pc = "returned" => cc.reported
    /\ cc.sends <= cc.built

\* The arguments of an invocation that fail validation before anything is
\* sent: a brightness outside 0..100, a color temperature of zero or less, a
\* color or colorwc command whose color does not parse or whose payload
\* build_color_payload refuses, a color-probe with a color that does not parse.
ArgsRefused(args) ==
    CASE args.action = "brightness" -> args.value.n < 0 \/ args.value.n > 100
      [] args.action = "color-temp" -> args.kelvin.n <= 0
      [] args.action \in {"color", "colorwc"} -> Raised(control_payload(args))
      [] args.action = "color-probe" ->
            \E i \in 1..Len(probe_colors(args)) :
                Raised(parse_color(probe_colors(args)[i]))
      [] OTHER -> FALSE

\* C27, amended: a socket is made only for a payload that was built and a
\* datagram sent only through such a socket; for the actions that send one
\* command and for the color names of color-probe a validation failure ends
\* the invocation with the failure reported and exit status 2, no payload
\* built, no socket made and no datagram sent, and this happens exactly for
\* the arguments that fail validation; a combination build_color_payload
\* refuses inside color-probe is passed over without a report.
C27_ValidationBeforeIOButProbe ==
    /\ cc.sends <= cc.socks /\ cc.socks <= cc.built
    /\ cc.invalid =>
          /\ cc.pc = "returned" /\ cc.rc = IntV(2) /\ cc.reported
          /\ cc.built = 0 /\ cc.socks = 0 /\ cc.sends = 0
    /\ (cc.pc # "idle" /\ cc.ip # None) => (ArgsRefused(cc.args) <=> cc.invalid)
    /\ cc.rejected > 0 =>
          (cc.args.action = "color-probe" /\ ~cc.invalid /\ ~cc.reported)

\* brightness 101 was refused.
C27_Witness ==
    /\ cc.pc = "returned" /\ cc.rc = IntV(2)
    /\ cc.args.action = "brightness" /\ cc.args.value = IntV(101)
    /\ cc.invalid /\ cc.reported /\ cc.socks = 0 /\ cc.sends = 0

\* ------------------------------------------------ claims on target selection

\* The devices of the registry whose ip is known.
Addressed == {d \in DOMAIN store.devices : store.devices[d].ip # None}

\* seq without the targets whose ip is not in the list ips
OnlyAllowed(seq, ips) ==
    LET Allowed(t) == \E k \in 1..Len(ips) : ips[k] = t.ip
    IN  SelectSeq(seq, Allowed)

RECURSIVE ApplyCommits(_)
ApplyCommits(cs) ==
    IF cs = <<>> THEN EmptyStore
    ELSE LET st == ApplyCommits(SubSeq(cs, 1, Len(cs) - 1))
             c == cs[Len(cs)].op
         IN  IF c.t = "call"
             THEN upsert_device_from_scan(st, c.device_id, c.ip, c.sku, c.ble_hw,
                      c.ble_sw, c.wifi_hw, c.wifi_sw, c.mac, c.scan_payload_raw,
                      c.seen_ms)
             ELSE record_interrogation(st, c.device_id, c.ip, c.cmd, c.sent_at_ms,
                      c.received_at_ms, c.success, c.error, c.request_obj,
                      c.response_obj)

\* The commits that are observations of device d.
ObservationsOf(d) ==
    {k \in 1..Len(db.commits) :
        db.commits[k].op.t = "call" /\ db.commits[k].op.device_id.v = d}

\* C29: with two connections writing the registry in any interleaving, one
\* connection writes at a time; the committed registry is what the committed
\* calls give when applied whole in the order of their commits, so that no
\* committed write is lost or applied in part; and every device has one row
\* whose first_seen is the time of the observation of it committed first,
\* also when a later one was begun before that commit.
C29_WritesSerialized ==
    /\ \A c \in Conns : db.conns[c].pc \in {"inserted", "written"} <=> db.lock = c
    /\ store = ApplyCommits(db.commits)
    /\ DOMAIN store.devices =
          {db.commits[k].op.device_id.v : k \in {j \in 1..Len(db.commits) : db.commits[j].op.t = "call"}}
    /\ \A d \in DOMAIN store.devices :
          \E k \in ObservationsOf(d) :
              /\ \A j \in ObservationsOf(d) : k <= j
              /\ store.devices[d].first_seen_ms = db.commits[k].op.seen_ms

\* Both connections observed the new device ABCD1234 before either had
\* written: the observation made at time 2 was committed first, the one made
\* at time 1, whose SELECT had found no row, second.
C29_Witness ==
    /\ Len(db.commits) = 2
    /\ db.commits[1].conn # db.commits[2].conn
    /\ db.commits[1].op.t = "call" /\ db.commits[2].op.t = "call"
    /\ db.commits[1].op.seen_ms = 2 /\ db.commits[2].op.seen_ms = 1
    /\ ~db.commits[1].saw_row /\ ~db.commits[2].saw_row
    /\ store.devices["ABCD1234"].first_seen_ms = 2

\* ------------------------------------------- claims on the end of the wait

\* The outcome interrogate_all recorded for the target whose wait just ended.
C30_Outcome == store'.interrogations[Len(store'.interrogations)]

\* While the wait for a target goes on its deadline stays the one fixed before
\* the send, whatever arrives; and the wait ends in one of three ways only: a
\* datagram that decodes to a JSON object arrived before the deadline, the
\* deadline passed and the outcome is "timeout", or recvfrom raised OSError.
C30_Step ==
    /\ (ia.pc = "recv" /\ ia'.pc = "recv") =>
          /\ ia'.deadline = ia.deadline
          /\ ia.deadline = ia.orig_timeout
    /\ (ia.pc = "recv" /\ ia'.pc # "recv") =>
          /\ ia'.pc = "loop" /\ ia'.idx = ia.idx + 1
          /\ Len(answers') = Len(answers) + 1
          /\ LET dg == answers'[Len(answers')] IN
             \/ /\ mono < ia.deadline
                /\ dg # None
                /\ Kind(dg.data) = "object"
                /\ C30_Outcome.success = 1
             \/ /\ mono >= ia.deadline
                /\ dg = None
                /\ C30_Outcome.success = 0
                /\ C30_Outcome.error = StrV("timeout")
             \/ /\ mono < ia.deadline
                /\ dg = None
                /\ C30_Outcome.success = 0
                /\ C30_Outcome.error = StrV("oserror:recvfrom")
    /\ (ia.pc = "recv" /\ mono >= ia.deadline /\ ia'.pc # "recv") =>
          C30_Outcome.error = StrV("timeout")

\* C30: with a finite socket timeout every wait of interrogate_device_dev_status
\* ends: the deadline is fixed once at the start of the call and no received
\* datagram extends it, so that also under an unending stream of undecodable
\* datagrams the call returns the timeout outcome once the deadline has passed;
\* and a wait ends only through a reply, the deadline, or a socket error.
C30_WaitEnds ==
    /\ [][C30_Step]_vars
    /\ (ia.pc = "recv") ~> (ia.pc # "recv")
    /\ (ia.pc = "recv" /\ mono >= ia.deadline) ~> (ia.pc # "recv")

\* The deadline of the wait has passed while nothing but undecodable datagrams
\* had arrived.
C30_Witness ==
    /\ ia.pc = "recv"
    /\ mono >= ia.deadline
    /\ heard = {"undecodable"}

\* --------------------------------------------- claims on the color probe

\* The places of the enumeration for the arguments of the call: color i,
\* command variant j, scale k, and Kelvin m of the list or, for m = 0, none.
C31_Places ==
    {<<i, j, k, m>> : i \in 1..Len(fc.args.colors), j \in 1..4, k \in 1..2,
                      m \in 0..Len(fc.args.kelvin_values)}

C31_VariantAt(j) == <<"color", "colorwc", "setColor", "setColorWC">>[j]
C31_ScaleAt(k) == <<255, 100>>[k]
C31_KelvinAt(m) == IF m = 0 THEN None ELSE fc.args.kelvin_values[m]

\* What build_color_payload gives for the combination at a place.
C31_Built(t) ==
    build_color_payload(Str(ProbeCommands[t[2]].chars), fc.args.colors[t[1]].value,
                        C31_KelvinAt(t[4]), C31_ScaleAt(t[3]))

\* The places that stand for a candidate: the no-Kelvin place only for color
\* and setColor and only when it is allowed, and no place whose combination
\* build_color_payload rejects.
C31_Candidates ==
    {t \in C31_Places :
        /\ t[4] = 0 => /\ fc.args.include_no_kelvin
                       /\ C31_VariantAt(t[2]) \in {"color", "setColor"}
        /\ ~Raised(C31_Built(t))}

\* Colors outermost, then variant, then scale, then Kelvin with none first.
C31_Rank(t) ==
    ((t[1] * 4 + t[2]) * 2 + t[3]) * (Len(fc.args.kelvin_values) + 1) + t[4]

\* C31: iter_color_probe_payloads yields the candidates in nested order --
\* colors, then command variant (color, colorwc, setColor, setColorWC), then
\* scale (255 before 100), then Kelvin (the no-Kelvin case first, only for
\* color and setColor and only when allowed, then the requested values in
\* order); it yields no colorwc or setColorWC candidate without Kelvin, passes
\* over every combination build_color_payload rejects, and yields every other
\* combination exactly once: for c colors and k positive Kelvin values with
\* no-Kelvin allowed, c * 2 * (2*(k+1) + 2*k) candidates.
C31_ProbeEnumeration ==
    fc.f = "iter_color_probe_payloads" =>
        /\ Len(fc.out) = Cardinality(C31_Candidates)
        /\ \A t \in C31_Candidates :
              LET n == 1 + Cardinality({u \in C31_Candidates : C31_Rank(u) < C31_Rank(t)})
              IN  /\ Text(fc.out[n].cmd.chars) = C31_VariantAt(t[2])
                  /\ fc.out[n].scale = C31_ScaleAt(t[3])
                  /\ fc.out[n].kelvin = C31_KelvinAt(t[4])
                  /\ fc.out[n].color_name = fc.args.colors[t[1]].name
                  /\ fc.out[n].payload = C31_Built(t)
        /\ \A n \in 1..Len(fc.out) :
              /\ IsDict(fc.out[n].payload)
              /\ Text(fc.out[n].cmd.chars) \in {"colorwc", "setColorWC"} =>
                    fc.out[n].kelvin # None
        /\ (/\ fc.args.include_no_kelvin
            /\ \A m \in 1..Len(fc.args.kelvin_values) : fc.args.kelvin_values[m].n > 0) =>
              LET c == Len(fc.args.colors)
                  k == Len(fc.args.kelvin_values)
              IN  Len(fc.out) = c * 2 * (2 * (k + 1) + 2 * k)

\* The generator ran for two colors and the Kelvin values 0 and 3000 with the
\* no-Kelvin case allowed: it passed the combinations with 0 over and yielded
\* 2 * 2 * (2*2 + 2*1) = 24 candidates, the first of them color at scale 255
\* without Kelvin, the second with 3000.
C31_Witness ==
    /\ fc.f = "iter_color_probe_payloads"
    /\ Len(fc.args.colors) = 2
    /\ fc.args.kelvin_values = <<IntV(0), IntV(3000)>>
    /\ fc.args.include_no_kelvin
    /\ Len(fc.out) = 24
    /\ Text(fc.out[1].cmd.chars) = "color" /\ fc.out[1].scale = 255
    /\ fc.out[1].kelvin = None /\ fc.out[2].kelvin = IntV(3000)
    /\ fc.out[3].scale = 100

\* The places of the attempts and of the delays in what run_color_probe did.
C32_Attempts == {i \in 1..Len(rp.log) : rp.log[i] = "attempt"}
C32_Delays == {i \in 1..Len(rp.log) : rp.log[i] = "sleep"}

\* C32: in run_color_probe every attempt except the first is immediately
\* preceded by exactly one 1-second delay, no delay precedes the first attempt
\* or follows the last, so that a probe of n attempts makes exactly n-1 delays
\* and no two attempts follow each other without a delay between them.
C32_ProbePaced ==
    /\ \A i \in C32_Attempts :
          /\ i > 1 => rp.log[i - 1] = "sleep"
          /\ i > 2 => rp.log[i - 2] = "attempt"
    /\ \A i \in C32_Delays : i > 1 /\ rp.log[i - 1] = "attempt"
    /\ rp.pc \in {"returned", "raised"} =>
          /\ rp.log # <<>> => rp.log[Len(rp.log)] = "attempt"
          /\ C32_Attempts # {} =>
                Cardinality(C32_Delays) = Cardinality(C32_Attempts) - 1
          /\ C32_Attempts = {} => C32_Delays = {}

\* A probe of eight attempts has returned after seven delays.
C32_Witness ==
    /\ rp.pc = "returned"
    /\ Len(rp.results) = 8
    /\ Cardinality(C32_Attempts) = 8
    /\ Cardinality(C32_Delays) = 7
    /\ rp.log[1] = "attempt" /\ rp.log[2] = "sleep" /\ rp.log[15] = "attempt"

\* The candidates the generator of the call yields, and what the network
\* did to attempt n.
C33_Yielded == rp.candidates
C33_Exchange(n) == exchange_of(rp.network, n)
C33_GotBytes(n) == C33_Exchange(n).tx = "ok" /\ C33_Exchange(n).rx.kind = "data"

\* Attempt n received a reply that is well-formed JSON.
C33_GotJson(n) ==
    C33_GotBytes(n) /\ safe_json_loads(C33_Exchange(n).rx.data) # None

\* Attempt n received a reply that is a JSON object.
C33_GotObject(n) ==
    C33_GotBytes(n) /\ IsDict(safe_json_loads(C33_Exchange(n).rx.data))

\* One result per attempt that send_control_command returned from, in attempt
\* order, whatever the outcome; the probe goes on after every attempt but,
\* with stop-on-success, one that got a reply in the sense of Replied.
C33_Accumulates(Replied(_)) ==
    rp.pc # "idle" =>
        LET made == Cardinality({i \in 1..Len(rp.log) : rp.log[i] = "attempt"})
            last == Len(rp.results)
        IN  /\ last = IF rp.pc = "raised" THEN made - 1 ELSE made
            /\ last <= Len(C33_Yielded)
            /\ \A n \in 1..last :
                  LET r == rp.results[n]
                      x == C33_Exchange(n)
                  IN  /\ r.command = C33_Yielded[n].cmd
                      /\ r.scale_max = C33_Yielded[n].scale
                      /\ r.kelvin = C33_Yielded[n].kelvin
                      /\ r.color_name = C33_Yielded[n].color_name
                      /\ r.payload = C33_Yielded[n].payload
                      /\ C33_GotObject(n) =>
                            r.ok /\ r.resp = safe_json_loads(x.rx.data) /\ r.error = None
                      /\ (x.tx = "ok" /\ x.rx.kind = "timeout") =>
                            r.ok /\ r.resp = None /\ r.error = StrV("timeout")
                      /\ (C33_GotBytes(n) /\ ~C33_GotObject(n)) =>
                            r.ok /\ r.resp = None /\ r.error = StrV("invalid_json")
                      /\ (x.tx = "oserror" \/ x.rx.kind = "oserror") =>
                            ~r.ok /\ r.resp = None /\ r.error # None
            /\ (rp.pc = "returned" /\ last < Len(C33_Yielded)) =>
                  rp.args.stop_on_success /\ Replied(last)
            /\ rp.args.stop_on_success =>
                  \A n \in 1..last : Replied(n) => n = last /\ rp.pc = "returned"
            /\ (~rp.args.stop_on_success /\ rp.pc = "returned") =>
                  last = Len(C33_Yielded)

C34_Step ==
    (ia.pc = "recv" /\ ia'.pc # "recv") =>
        LET row == store'.interrogations[Len(store'.interrogations)]
            dg == answers'[Len(answers')]
        IN  /\ store'.device_kv # store.device_kv =>
                  /\ dg # None
                  /\ is_dev_status_response(safe_json_loads(dg.data))
            /\ row.error = StrV("unexpected_cmd") =>
                  /\ row.response_json # None
                  /\ store'.device_kv = store.device_kv

\* C34: status enrichment uses only genuine status replies: a status.* entry
\* of the key/value table is only ever written from a reply whose command
\* name is devStatus, and a reply that interrogate_device_dev_status tags
\* "unexpected_cmd" is stored in the interrogation history but changes no
\* key/value entry.
C34_EnrichOnlyFromStatus == [][C34_Step]_vars

\* ------------------------------------------- claims on what a write leaves

\* The columns of a Device row that only a scan observation may set.
C35_ScanColumns(row) ==
    <<row.ip, row.sku, row.ble_version_hard, row.ble_version_soft,
      row.wifi_version_hard, row.wifi_version_soft, row.mac,
      row.last_scan_payload, row.first_seen_ms, row.last_seen_ms>>

\* In a call of upsert_device_from_scan, told by the history of its calls,
\* only the row of the device observed changes or appears, its
\* last_status_payload and the three other tables staying what they were; in
\* a call of record_interrogation or set_kv no Device row appears or goes and
\* no row's scan columns change.
C35_Step ==
    /\ upserts' # upserts =>
          LET d == upserts'[Len(upserts')].device_id.v IN
          /\ DOMAIN store'.devices = DOMAIN store.devices \cup {d}
          /\ \A e \in DOMAIN store.devices \ {d} : store'.devices[e] = store.devices[e]
          /\ store'.devices[d].last_status_payload =
                IF d \in DOMAIN store.devices
                THEN store.devices[d].last_status_payload ELSE None
          /\ store'.scan_events = store.scan_events
          /\ store'.interrogations = store.interrogations
          /\ store'.device_kv = store.device_kv
    /\ upserts' = upserts =>
          /\ DOMAIN store'.devices = DOMAIN store.devices
          /\ \A e \in DOMAIN store.devices :
                C35_ScanColumns(store'.devices[e]) = C35_ScanColumns(store.devices[e])
          /\ store'.scan_events = store.scan_events

\* C35: upsert_device_from_scan changes only the Device row it addresses and
\* never that row's last_status_payload, nor any ScanEvent, Interrogation or
\* KeyValue row; record_interrogation and set_kv never create a Device row
\* and never change a device's ip, sku, versions, mac, last scan payload,
\* first_seen or last_seen: Device rows come from scan observations only.
C35_WritesKeepFrame == [][C35_Step]_vars

\* ABCD1234, first seen at time 1, has been interrogated twice, which set its
\* last_status_payload, has been observed again at time 2, and key/value
\* entries were written for it and for an id the registry does not know: the
\* one Device row holds the status payload and the times of both observations.
C35_Witness ==
    /\ Len(upserts) = 1 /\ upserts[1].seen_ms = 2
    /\ DOMAIN store.devices = {"ABCD1234"}
    /\ store.devices["ABCD1234"].first_seen_ms = 1
    /\ store.devices["ABCD1234"].last_seen_ms = 2
    /\ store.devices["ABCD1234"].last_status_payload # None
    /\ Len(store.interrogations) = 2
    /\ Len(store.scan_events) = 1
    /\ <<"ABCD1234", "status.onOff">> \in DOMAIN store.device_kv
    /\ <<"ZZZZ0000", "status.onOff">> \in DOMAIN store.device_kv

\* ------------------------------------------- claims on the shape of a row

\* C36: in every Interrogation row interrogate_all has written, success,
\* a received_at that is not NULL and a stored response go together: a row
\* with success = 1 has both, a row with success = 0 has neither, and a row
\* whose error is NULL has success = 1.
C36_RowFactsCoincide ==
    \A n \in 1..Len(store.interrogations) :
        LET row == store.interrogations[n] IN
        /\ row.success \in {0, 1}
        /\ (row.success = 1) <=> (row.received_at_ms # None)
        /\ (row.success = 1) <=> (row.response_json # None)
        /\ row.success = 0 => row.received_at_ms = None /\ row.response_json = None
        /\ row.error = None => row.success = 1

\* A run has written two rows: a timeout, without received_at and response,
\* and a reply of the empty object {}, tagged unexpected_cmd: success with an
\* error, a received_at and the response "{}" stored.
C36_Witness ==
    /\ Len(store.interrogations) = 2
    /\ store.interrogations[1].success = 0
    /\ store.interrogations[1].error = StrV("timeout")
    /\ store.interrogations[1].received_at_ms = None
    /\ store.interrogations[2].success = 1
    /\ store.interrogations[2].error = StrV("unexpected_cmd")
    /\ store.interrogations[2].received_at_ms # None
    /\ answers[2] # None /\ safe_json_loads(answers[2].data) = Obj(EmptyMap)
    /\ store.interrogations[2].response_json = json_dumps(Obj(EmptyMap))

\* ------------------------------------------ claims on the socket timeout

\* C37: each target of a batch gets the full configured timeout: while
\* interrogate_device_dev_status waits it shortens the timeout of the shared
\* socket, and on every way out (reply, unexpected reply, timeout, error) the
\* socket has the configured timeout again, so that the deadline of every
\* target is the configured timeout counted from its own send, whatever time
\* or noise earlier targets have consumed.
C37_FullTimeoutPerTarget ==
    /\ ia.pc \in {"loop", "done", "raised"} => sock.timeout = TimeoutTicks
    /\ ia.pc = "recv" =>
          /\ ia.orig_timeout = TimeoutTicks
          /\ ia.deadline = TimeoutTicks
          /\ sock.timeout \in 0..TimeoutTicks
          /\ sock.timeout >= ia.deadline - mono

\* The first target used up its timeout; the second is waited for, noise has
\* shortened the socket's timeout to what is left, and its deadline is the
\* configured timeout from its own send.
C37_Witness ==
    /\ ia.pc = "recv" /\ ia.idx = 2
    /\ Len(store.interrogations) = 1
    /\ store.interrogations[1].error = StrV("timeout")
    /\ mono = 1
    /\ heard # {}
    /\ sock.timeout = TimeoutTicks - 1
    /\ ia.deadline = TimeoutTicks

====
